---- MODULE Spec2Model ----
(***************************************************************************)
(* TravianMap server: dated per-server village partitions, the x_world     *)
(* dump-line parser, the ingestion pipeline, the two-snapshot AFK query,   *)
(* the alliance ranking, the servers table with its automatic load, and    *)
(* calls that run at the same time, modelled from                          *)
(* src/server/src/database.rs and src/server/src/main.rs.                  *)
(*                                                                         *)
(* Text is modelled as a sequence of one-character strings, so that        *)
(* trimming, searching, slicing and tokenizing are computed the way the    *)
(* code computes them.  Option<T> is <<>> (None) or <<v>> (Some(v)), and   *)
(* Result<T> is <<>> (Err) or <<v>> (Ok(v)).                               *)
(***************************************************************************)
EXTENDS Integers, Sequences, FiniteSets, TLC

VARIABLES
    \* ---- parse_x_world_values, one step per character ----
    values_str,   \* the text between the parentheses
    pos,          \* index of the next character the loop reads
    tok,          \* [parts, current, in_quotes, quote_char]
    parsed,       \* Result<ParsedVillage> once ppc = "done"
    ppc,          \* "scan" | "split" | "done"
    \* ---- the store and one execute_sql_for_server call ----
    today,        \* chrono::Utc::now().date_naive(), as a day number
    tables,       \* the store: table name -> sequence of rows
    run,          \* the call in progress (or the last one finished), with
                  \* what it logged last, the rows it got accepted and the
                  \* rows its table held when it started
    calls,        \* execute_sql_for_server calls started so far
    \* ---- find_afk_villages_for_server ----
    afk,          \* the request served and what it returned
    \* ---- get_alliance_info_for_server ----
    ally,         \* the call served and what it returned
    \* ---- the servers table and the calls that manage it ----
    servers,      \* rows of the servers table: [id, name, url, is_active]
    serial,       \* last value of the SERIAL behind servers.id
    op,           \* the last call finished: what it was, did and returned
    \* ---- calls that run at the same time ----
    jobs,         \* execute_sql_for_server: task -> the call it runs
    acts          \* set_active_server: task -> the call it runs

parseVars == <<values_str, pos, tok, parsed, ppc>>
storeVars == <<today, tables, run, calls>>
afkVars == <<afk>>
allyVars == <<ally>>
regVars == <<servers, serial, op>>
concVars == <<jobs, acts>>
vars == <<values_str, pos, tok, parsed, ppc, today, tables, run, calls, afk, ally,
          servers, serial, op, jobs, acts>>

-----------------------------------------------------------------------------
(* Option / Result *)

None == <<>>
Some(v) == <<v>>
IsSome(o) == o # <<>>
Unwrap(o) == o[1]
UnwrapOr(o, d) == IF o # <<>> THEN o[1] ELSE d

-----------------------------------------------------------------------------
(* str helpers *)

SQ == "'"
DQ == "\""
COMMA == ","

IsWhitespace(c) == c = " "

RECURSIVE TrimStart(_)
TrimStart(s) ==
    IF s # <<>> /\ IsWhitespace(Head(s)) THEN TrimStart(Tail(s)) ELSE s

RECURSIVE TrimEnd(_)
TrimEnd(s) ==
    IF s # <<>> /\ IsWhitespace(s[Len(s)])
    THEN TrimEnd(SubSeq(s, 1, Len(s) - 1))
    ELSE s

Trim(s) == TrimEnd(TrimStart(s))

RECURSIVE TrimMatchesStart(_, _)
TrimMatchesStart(s, c) ==
    IF s # <<>> /\ Head(s) = c THEN TrimMatchesStart(Tail(s), c) ELSE s

RECURSIVE TrimMatchesEnd(_, _)
TrimMatchesEnd(s, c) ==
    IF s # <<>> /\ s[Len(s)] = c
    THEN TrimMatchesEnd(SubSeq(s, 1, Len(s) - 1), c)
    ELSE s

TrimMatches(s, c) == TrimMatchesEnd(TrimMatchesStart(s, c), c)

\* i32 range (str::parse::<i32>)
I32Max == 2147483647
I32Min == (-I32Max) - 1

Digits == {"0", "1", "2", "3", "4", "5", "6", "7", "8", "9"}
DigitVal(c) ==
    CASE c = "0" -> 0 [] c = "1" -> 1 [] c = "2" -> 2 [] c = "3" -> 3
      [] c = "4" -> 4 [] c = "5" -> 5 [] c = "6" -> 6 [] c = "7" -> 7
      [] c = "8" -> 8 [] c = "9" -> 9

\* checked_mul(10) then checked_add / checked_sub of one digit; m is the
\* magnitude accumulated so far, lastMax the largest final digit that fits
\* (7 for a positive number, 8 for a negative one).
RECURSIVE ParseMagnitude(_, _, _)
ParseMagnitude(s, m, lastMax) ==
    IF s = <<>> THEN Some(m)
    ELSE IF Head(s) \notin Digits THEN None
    ELSE LET d == DigitVal(Head(s)) IN
         IF m < I32Max \div 10 \/ (m = I32Max \div 10 /\ d <= lastMax)
         THEN IF m = I32Max \div 10 /\ d = 8
              THEN IF Tail(s) = <<>> THEN Some(I32Min) ELSE None
              ELSE ParseMagnitude(Tail(s), m * 10 + d, lastMax)
         ELSE None

\* str::parse::<i32>(): optional sign, at least one digit, no whitespace,
\* Err on overflow.  A negative result is returned already negated.
ParseI32(s) ==
    IF s = <<>> THEN None
    ELSE IF Head(s) \in {"+", "-"}
    THEN IF Tail(s) = <<>> THEN None
         ELSE IF Head(s) = "+"
              THEN ParseMagnitude(Tail(s), 0, 7)
              ELSE LET r == ParseMagnitude(Tail(s), 0, 8) IN
                   IF r = None THEN None
                   ELSE IF Unwrap(r) = I32Min THEN r
                   ELSE Some(-Unwrap(r))
    ELSE ParseMagnitude(s, 0, 7)

-----------------------------------------------------------------------------
(* parse_x_world_values: tokenizer *)

TokInit == [parts |-> <<>>, current |-> <<>>, in_quotes |-> FALSE, quote_char |-> DQ]

\* A bug the tokenizer could have: any quote character closes an open span.
TokStepAnyQuoteCloses(st, ch) ==
    IF ch \in {DQ, SQ}
    THEN [st EXCEPT !.in_quotes = ~st.in_quotes,
                    !.quote_char = IF ~st.in_quotes THEN ch ELSE @,
                    !.current = Append(@, ch)]
    ELSE IF ch = COMMA /\ ~st.in_quotes
    THEN [st EXCEPT !.parts = Append(@, Trim(st.current)), !.current = <<>>]
    ELSE [st EXCEPT !.current = Append(@, ch)]

\* one iteration of `for ch in values_str.chars() { match ch {...} }`
TokStep(st, ch) ==
    IF ch \in {DQ, SQ}
    THEN [st EXCEPT !.in_quotes = IF ~st.in_quotes THEN TRUE
                                  ELSE IF ch = st.quote_char THEN FALSE
                                  ELSE @,
                    !.quote_char = IF ~st.in_quotes THEN ch ELSE @,
                    !.current = Append(@, ch)]
    ELSE IF ch = COMMA /\ ~st.in_quotes
    THEN [st EXCEPT !.parts = Append(@, Trim(st.current)), !.current = <<>>]
    ELSE [st EXCEPT !.current = Append(@, ch)]

\* `if !current.is_empty() { parts.push(current.trim()) }`
TokFinish(st) ==
    IF st.current # <<>> THEN Append(st.parts, Trim(st.current)) ELSE st.parts

RECURSIVE TokFold(_, _)
TokFold(st, s) == IF s = <<>> THEN st ELSE TokFold(TokStep(st, Head(s)), Tail(s))

Tokenize(s) == TokFinish(TokFold(TokInit, s))

-----------------------------------------------------------------------------
(* parse_x_world_values: field mapping *)

MinFields == 11

NULLTEXT == <<"N", "U", "L", "L">>

StripQuotes(f) == TrimMatches(TrimMatches(f, SQ), DQ)

\* A bug the length check could have: one field too many is demanded.
MapFieldsOffByOne(parts) ==
    IF Len(parts) < MinFields + 1 THEN <<>>
    ELSE Some([worldid |-> ParseI32(parts[1]),
               x |-> UnwrapOr(ParseI32(parts[2]), 0),
               y |-> UnwrapOr(ParseI32(parts[3]), 0),
               tid |-> ParseI32(parts[4]),
               vid |-> ParseI32(parts[5]),
               village |-> StripQuotes(parts[6]),
               uid |-> ParseI32(parts[7]),
               player |-> IF parts[8] = NULLTEXT \/ parts[8] = <<>>
                          THEN None ELSE Some(StripQuotes(parts[8])),
               aid |-> ParseI32(parts[9]),
               alliance |-> IF Len(parts) > 9 /\ parts[10] # NULLTEXT /\ parts[10] # <<>>
                            THEN Some(StripQuotes(parts[10])) ELSE None,
               population |-> UnwrapOr(ParseI32(parts[11]), 0)])

\* lines 475-524; parts[i] of the code is parts[i+1] here (1-based sequences)
MapFields(parts) ==
    IF Len(parts) < MinFields THEN <<>>
    ELSE Some([worldid |-> ParseI32(parts[1]),
               x |-> UnwrapOr(ParseI32(parts[2]), 0),
               y |-> UnwrapOr(ParseI32(parts[3]), 0),
               tid |-> ParseI32(parts[4]),
               vid |-> ParseI32(parts[5]),
               village |-> StripQuotes(parts[6]),
               uid |-> ParseI32(parts[7]),
               player |-> IF parts[8] = NULLTEXT \/ parts[8] = <<>>
                          THEN None ELSE Some(StripQuotes(parts[8])),
               aid |-> ParseI32(parts[9]),
               alliance |-> IF Len(parts) > 9 /\ parts[10] # NULLTEXT /\ parts[10] # <<>>
                            THEN Some(StripQuotes(parts[10])) ELSE None,
               population |-> UnwrapOr(ParseI32(parts[11]), 0)])

ParseXWorldValues(s) == MapFields(Tokenize(s))

-----------------------------------------------------------------------------
(* str searching and slicing; offsets are 0-based as in the code *)

StartsWith(s, p) == Len(s) >= Len(p) /\ SubSeq(s, 1, Len(p)) = p

Matches(s, p) == {i \in 0..(Len(s) - Len(p)) : SubSeq(s, i + 1, i + Len(p)) = p}

Min(S) == CHOOSE m \in S : \A n \in S : m <= n
Max(S) == CHOOSE m \in S : \A n \in S : m >= n

Find(s, p) == IF Matches(s, p) = {} THEN None ELSE Some(Min(Matches(s, p)))
RFind(s, p) == IF Matches(s, p) = {} THEN None ELSE Some(Max(Matches(s, p)))
Contains(s, p) == Matches(s, p) # {}

UpperCase == <<"A", "B", "C", "D", "E", "F", "G", "H", "I", "J", "K", "L", "M",
               "N", "O", "P", "Q", "R", "S", "T", "U", "V", "W", "X", "Y", "Z">>
LowerCase == <<"a", "b", "c", "d", "e", "f", "g", "h", "i", "j", "k", "l", "m",
               "n", "o", "p", "q", "r", "s", "t", "u", "v", "w", "x", "y", "z">>

ToLowerChar(c) ==
    IF \E i \in 1..Len(UpperCase) : UpperCase[i] = c
    THEN LowerCase[CHOOSE i \in 1..Len(UpperCase) : UpperCase[i] = c]
    ELSE c

ToLowercase(s) == [i \in 1..Len(s) |-> ToLowerChar(s[i])]

-----------------------------------------------------------------------------
(* Partition naming and listing.  A table name is the tuple of the pieces  *)
(* its format string puts together: <<"villages_server", id, date>> for   *)
(* villages_server_{id}_{YYYY_MM_DD} and <<"villages", date>> for the      *)
(* villages_YYYY_MM_DD tables that get_available_dates lists.  Dates are   *)
(* day numbers; the listings order the tables by the text of the date in   *)
(* the name, as ORDER BY table_name does.                                  *)

MaxHist == 10           \* days of earlier loads a server may start with
MaxTicks == 1           \* midnights that pass

StartDay == MaxHist + 1
MaxDay == StartDay + MaxTicks
LastDay == MaxDay

\* the calendar around a turn of the year: day 1 is 2024-12-30
NaiveDate(day) ==
    IF day <= 2 THEN [year |-> 2024, month |-> 12, day |-> 29 + day]
    ELSE [year |-> 2025, month |-> 1, day |-> day - 2]

DigitChar(d) ==
    CASE d = 0 -> "0" [] d = 1 -> "1" [] d = 2 -> "2" [] d = 3 -> "3" [] d = 4 -> "4"
      [] d = 5 -> "5" [] d = 6 -> "6" [] d = 7 -> "7" [] d = 8 -> "8" [] d = 9 -> "9"

\* decimal text of n >= 0
RECURSIVE Decimal(_)
Decimal(n) == IF n < 10 THEN <<DigitChar(n)>> ELSE Decimal(n \div 10) \o <<DigitChar(n % 10)>>

\* decimal text of n >= 0, zero-padded to the given width
RECURSIVE ZeroPad(_, _)
ZeroPad(text, width) == IF Len(text) >= width THEN text ELSE ZeroPad(<<"0">> \o text, width)

\* a date written without padding
FormatDateUnpadded(date) ==
    Decimal(date.year) \o <<"_">> \o Decimal(date.month) \o <<"_">> \o Decimal(date.day)

\* date.format("%Y_%m_%d")
FormatDate(date) ==
    ZeroPad(Decimal(date.year), 4) \o <<"_">> \o ZeroPad(Decimal(date.month), 2)
        \o <<"_">> \o ZeroPad(Decimal(date.day), 2)

\* order of the characters of a date text: '0' < ... < '9' < '_'
CharRank(c) == IF c \in Digits THEN DigitVal(c) ELSE 10

\* a sorts before b, character by character, a prefix before its extensions
RECURSIVE TextLess(_, _)
TextLess(a, b) ==
    IF b = <<>> THEN FALSE
    ELSE IF a = <<>> THEN TRUE
    ELSE IF Head(a) # Head(b) THEN CharRank(Head(a)) < CharRank(Head(b))
    ELSE TextLess(Tail(a), Tail(b))

GetTableNameForServerAndDate(server_id, date) == <<"villages_server", server_id, date>>

\* "Default server (id = 1) for backward compatibility"
GetTableNameForDate(date) == GetTableNameForServerAndDate(1, date)

EmptyStore == [n \in {} |-> <<>>]

\* CREATE TABLE IF NOT EXISTS
CreateTableForServerAndDate(store, server_id, date) ==
    LET table_name == GetTableNameForServerAndDate(server_id, date) IN
    IF table_name \in DOMAIN store THEN store ELSE store @@ (table_name :> <<>>)

\* DROP TABLE IF EXISTS
DropTable(store, table_name) ==
    [n \in DOMAIN store \ {table_name} |-> store[n]]

\* the date part of the table names of the days the store can hold
DateText == [d \in 1..LastDay |-> FormatDate(NaiveDate(d))]

\* for each day, the days whose text sorts before its own
SortsBefore == [d \in 1..LastDay |-> {e \in 1..LastDay : TextLess(DateText[e], DateText[d])}]

\* the date whose text sorts last
LastByName(S) == CHOOSE d \in S : (S \ {d}) \subseteq SortsBefore[d]

\* ORDER BY table_name DESC, for tables that differ in the date only
RECURSIVE SortDesc(_)
SortDesc(S) ==
    IF S = {} THEN <<>>
    ELSE LET last == LastByName(S) IN <<last>> \o SortDesc(S \ {last})

CountWhere(rows, server_id) ==
    Len(SelectSeq(rows, LAMBDA r : r.server_id = server_id))

\* table_name ~ '^villages_[0-9]{4}_[0-9]{2}_[0-9]{2}$' ORDER BY table_name DESC
GetAvailableDates(store) ==
    LET dates == SortDesc({n[2] : n \in {m \in DOMAIN store :
                                            Len(m) = 2 /\ m[1] = "villages"}})
    IN [i \in 1..Len(dates) |-> <<dates[i], Len(store[<<"villages", dates[i]>>])>>]

\* table_name ~ '^villages_server_{id}_[0-9]{4}_[0-9]{2}_[0-9]{2}$' ORDER BY table_name DESC
GetAvailableDatesForServer(store, server_id) ==
    LET dates == SortDesc({n[3] : n \in {m \in DOMAIN store :
                              Len(m) = 3 /\ m[1] = "villages_server" /\ m[2] = server_id}})
    IN [i \in 1..Len(dates) |->
          <<dates[i],
            CountWhere(store[GetTableNameForServerAndDate(server_id, dates[i])], server_id)>>]

KeepTables == 10

RECURSIVE DropEach(_, _)
DropEach(store, dates) ==
    IF dates = <<>> THEN store
    ELSE DropEach(DropTable(store, GetTableNameForDate(Head(dates)[1])), Tail(dates))

\* "Keep only the last 10 tables"
CleanupOldTables(store) ==
    LET available_dates == GetAvailableDates(store) IN
    IF Len(available_dates) > KeepTables
    THEN DropEach(store, SubSeq(available_dates, KeepTables + 1, Len(available_dates)))
    ELSE store

\* create_tables at start-up: today's table of the default server
CreateTables(store, date) == CreateTableForServerAndDate(store, 1, date)

-----------------------------------------------------------------------------
(* execute_sql_for_server: what one line of the dump leads to *)

INSERT_INTO == <<"i", "n", "s", "e", "r", "t", " ", "i", "n", "t", "o">>
X_WORLD == <<"x", "_", "w", "o", "r", "l", "d">>
\* the grave accent that quotes the table name in a dump, as one character
BACKTICK == "GRAVE"
X_WORLD_QUOTED == <<BACKTICK>> \o X_WORLD \o <<BACKTICK>>
VALUES == <<"V", "A", "L", "U", "E", "S">>

\* &s[from..to]: panics when from > to or to > len
SliceOk(s, from, to) == from <= to /\ to <= Len(s)
Slice(s, from, to) == SubSeq(s, from + 1, to)

\* Lines 386-404: <<"skip">> when the line is passed over, <<"panic">> when the
\* slice &values_part[start + 1..end] is out of order, <<"values", values_str>>
\* when a value list is handed to the parser.
ExtractValues(line) ==
    LET trimmed == Trim(line)
        lower == ToLowercase(trimmed)
    IN
    IF trimmed = <<>> \/ StartsWith(trimmed, <<"-", "-">>) \/ StartsWith(trimmed, <<"/", "*">>)
    THEN <<"skip">>
    ELSE IF ~(Contains(lower, INSERT_INTO)
              /\ (Contains(lower, X_WORLD) \/ Contains(lower, X_WORLD_QUOTED)))
    THEN <<"skip">>
    ELSE LET values_start == Find(trimmed, VALUES) IN
         IF values_start = None THEN <<"skip">>
         ELSE LET values_part == Trim(Slice(trimmed, Unwrap(values_start) + 6, Len(trimmed)))
                  start == Find(values_part, <<"(">>)
                  end == RFind(values_part, <<")">>)
              IN IF start = None \/ end = None THEN <<"skip">>
                 ELSE IF ~SliceOk(values_part, Unwrap(start) + 1, Unwrap(end))
                 THEN <<"panic">>
                 ELSE <<"values", Slice(values_part, Unwrap(start) + 1, Unwrap(end))>>

\* the row insert_parsed_village_to_table_with_server binds
RowOf(village, server_id) ==
    [server_id |-> server_id, worldid |-> village.worldid, x |-> village.x,
     y |-> village.y, tid |-> village.tid, vid |-> village.vid,
     village |-> village.village, uid |-> village.uid, player |-> village.player,
     aid |-> village.aid, alliance |-> village.alliance,
     population |-> village.population]

\* A bug the clearing step could have: rows of the earlier load are kept.
DeleteForServerKeepsRows(rows, server_id) == rows

\* DELETE FROM {table} WHERE server_id = $1
DeleteForServer(rows, server_id) ==
    SelectSeq(rows, LAMBDA r : r.server_id # server_id)

-----------------------------------------------------------------------------
(* Inputs of the parser specification *)

MaxLen == 5

TokAlphabet == {COMMA, SQ, DQ, "a", " "}

ShortInputs == UNION {[1..n -> TokAlphabet] : n \in 0..MaxLen}

RECURSIVE Join(_, _)
Join(fields, sep) ==
    IF fields = <<>> THEN <<>>
    ELSE IF Len(fields) = 1 THEN fields[1]
    ELSE fields[1] \o sep \o Join(Tail(fields), sep)

\* texts a name column of a dump line can hold
NameTexts ==
    { NULLTEXT, <<>>, <<SQ, SQ>>, <<DQ, DQ>>, <<SQ, "A", "l", SQ>>,
      <<"A", "l">>, <<SQ, "N", "a", "t", "a", "r", "s", SQ>>, <<SQ, DQ, SQ>> }

PopTexts == { <<"4", "9", "8">>, <<"-", "7">>, <<"x">> }

RecordFields(owner, alliance, pop) ==
    << <<"2", "2">>, <<"1", "7">>, <<"-", "4">>, <<"5">>, <<"3", "1">>,
       <<SQ, "V", ",", " ", "a", SQ>>, <<"1">>, owner, <<"0">>, alliance, pop,
       NULLTEXT >>

RecordInputs ==
    { Join(SubSeq(RecordFields(o, a, p), 1, n), <<COMMA>>) :
        o \in NameTexts, a \in NameTexts, p \in PopTexts, n \in {10, 11, 12} }

ParseInputs == ShortInputs \cup RecordInputs

-----------------------------------------------------------------------------
(* Dump texts the ingestion is run on: sequences of lines (str::lines) *)

Paren(fields) == <<"(">> \o Join(fields, <<COMMA>>) \o <<")">>

InsertLine(rest) ==
    <<"I", "N", "S", "E", "R", "T", " ", "I", "N", "T", "O", " ">>
        \o X_WORLD_QUOTED \o <<" ">> \o VALUES \o <<" ">> \o rest \o <<";">>

FieldsA ==
    << <<"2", "2">>, <<"1", "7">>, <<"-", "4">>, <<"5">>, <<"3", "1">>,
       <<SQ, "V", ",", " ", "a", SQ>>, <<"1">>, <<SQ, "A", "l", SQ>>, <<"3">>,
       <<SQ, "I", "X", SQ>>, <<"4", "9", "8">>, NULLTEXT >>

FieldsB ==
    << <<"2", "3">>, <<"-", "3">>, <<"7">>, <<"1">>, <<"3", "2">>,
       <<SQ, "V", "b", SQ>>, <<"2">>, <<SQ, "B", "o", SQ>>, <<"0">>,
       <<SQ, SQ>>, <<"1", "2", "0">> >>

\* unparsable numbers in every numeric column
FieldsBadNum ==
    << <<"w">>, <<"1", "x">>, <<>>, NULLTEXT, <<"+">>,
       <<SQ, "V", "c", SQ>>, <<"u">>, NULLTEXT, <<"-">>,
       NULLTEXT, <<"9", "9", "9", "9", "9", "9", "9", "9", "9", "9">> >>

\* a population below zero
FieldsNegPop ==
    << <<"2", "4">>, <<"5">>, <<"6">>, <<"1">>, <<"3", "3">>,
       <<SQ, "V", "d", SQ>>, <<"2">>, <<SQ, "B", "o", SQ>>, <<"0">>,
       NULLTEXT, <<"-", "5">> >>

LineA == InsertLine(Paren(FieldsA))
LineNegPop == InsertLine(Paren(FieldsNegPop))
LineB == InsertLine(Paren(FieldsB))
LineBadNum == InsertLine(Paren(FieldsBadNum))
LineShort == InsertLine(Paren(SubSeq(FieldsA, 1, 10)))
LineReversed == InsertLine(<<")", "1", ",", "2", "(">>)
LineNoOpen == InsertLine(<<"1", ",", "2", ")">>)
LineNoClose == InsertLine(<<"(", "1", ",", "2">>)
LineLowerValues ==
    <<"i", "n", "s", "e", "r", "t", " ", "i", "n", "t", "o", " ">> \o X_WORLD
        \o <<" ", "v", "a", "l", "u", "e", "s", " ">> \o Paren(FieldsA)
LineOtherTable ==
    <<"I", "N", "S", "E", "R", "T", " ", "I", "N", "T", "O", " ", "y", " ">>
        \o VALUES \o Paren(FieldsA)
LineBlank == <<" ", " ">>
LineComment == <<"-", "-", " ", "x">>
LineBlockComment == <<"/", "*", " ", "x">>

Dumps ==
    << <<LineComment, LineBadNum, LineShort, LineB>>,
       <<LineA, LineReversed, LineB>>,
       <<LineBlank, LineLowerValues, LineNoOpen, LineNoClose, LineOtherTable,
         LineBlockComment, LineA>>,
       <<LineNegPop>> >>

-----------------------------------------------------------------------------
(* The store at start-up and execute_sql_for_server as a state machine *)

Servers == {1, 2}

MaxCalls == 2           \* calls of execute_sql_for_server
MaxInsertFailures == 1  \* INSERT statements of one call that the store rejects

HistRow(server_id, date) ==
    [server_id |-> server_id, worldid |-> Some(date), x |-> server_id, y |-> 0,
     tid |-> Some(1), vid |-> Some(1), village |-> <<"H">>, uid |-> Some(4),
     player |-> Some(<<"H", "i">>), aid |-> Some(0), alliance |-> None,
     population |-> 100 + date]

\* partitions left by loads on the h days before StartDay
History(server_id, h) ==
    [n \in {GetTableNameForServerAndDate(server_id, d) : d \in (StartDay - h)..(StartDay - 1)}
        |-> <<HistRow(server_id, n[3])>>]

\* k tables named villages_YYYY_MM_DD, none dated after StartDay
LegacyTables(k) == [n \in {<<"villages", d>> : d \in 1..k} |-> <<>>]

RunIdle ==
    [pc |-> "idle", server_id |-> 0, dump |-> 0, table_name |-> <<>>, idx |-> 0,
     village_count |-> 0, accepted |-> <<>>, last |-> "", insert_failures |-> 0,
     prior |-> <<>>, ret |-> None]

StoreIdle ==
    /\ today = StartDay
    /\ tables = CreateTables(EmptyStore, StartDay)
    /\ run = RunIdle
    /\ calls = 0

AfkIdle ==
    afk = [pc |-> "idle", quadrant |-> "", days |-> 0, used |-> <<>>, queries |-> 0,
           ret |-> <<>>]

AllyIdle == ally = [pc |-> "idle", server_id |-> 0, ret |-> <<>>]

OpIdle == [seq |-> 0, name |-> "", server_id |-> 0, fetch |-> <<>>, needed |-> FALSE,
           fetched |-> FALSE, ingested |-> FALSE, ret |-> <<>>]

\* the servers table as create_tables leaves it in a new database
RegIdle ==
    /\ servers = {}
    /\ serial = 0
    /\ op = OpIdle

Tasks == {1, 2}

ActIdle == [pc |-> "idle", server_id |-> 0]

\* no call runs beside another
ConcIdle ==
    /\ jobs = [t \in Tasks |-> RunIdle]
    /\ acts = [t \in Tasks |-> ActIdle]

ParseIdle ==
    /\ values_str = <<>>
    /\ pos = 1
    /\ tok = TokInit
    /\ parsed = <<>>
    /\ ppc = "done"

Init ==
    /\ ParseIdle
    /\ AfkIdle
    /\ AllyIdle
    /\ ConcIdle
    /\ RegIdle
    /\ today = StartDay
    /\ \E h1 \in {0, MaxHist}, h2 \in {0, 1}, k \in {0, MaxHist + 1} :
          tables = CreateTables(History(1, h1) @@ History(2, h2) @@ LegacyTables(k),
                                StartDay)
    /\ run = RunIdle
    /\ calls = 0

\* midnight
Tick ==
    /\ today < MaxDay
    /\ today' = today + 1
    /\ UNCHANGED <<tables, run, calls>>
    /\ UNCHANGED parseVars
    /\ UNCHANGED <<afkVars, allyVars, regVars, concVars>>

\* lines 372-375: the call starts, today's table is created if absent
IngestStart(server_id, dump) ==
    /\ run.pc \in {"idle", "done", "panicked"}
    /\ calls < MaxCalls
    /\ calls' = calls + 1
    /\ tables' = CreateTableForServerAndDate(tables, server_id, today)
    /\ run' = [RunIdle EXCEPT !.pc = "clear", !.server_id = server_id, !.dump = dump,
                 !.table_name = GetTableNameForServerAndDate(server_id, today),
                 !.prior = tables'[GetTableNameForServerAndDate(server_id, today)]]
    /\ UNCHANGED today
    /\ UNCHANGED parseVars
    /\ UNCHANGED <<afkVars, allyVars, regVars, concVars>>

\* lines 378-379: clear today's rows of this server
IngestClear ==
    /\ run.pc = "clear"
    /\ tables' = [tables EXCEPT ![run.table_name] = DeleteForServer(@, run.server_id)]
    /\ run' = [run EXCEPT !.pc = "lines", !.idx = 1]
    /\ UNCHANGED <<today, calls>>
    /\ UNCHANGED parseVars
    /\ UNCHANGED <<afkVars, allyVars, regVars, concVars>>

\* What the loop body does with a line: ExtractValues, and the parser's
\* result when a value list was found.
LineOutcome(line) ==
    LET e == ExtractValues(line) IN
    IF e[1] = "values" THEN <<"values", e[2], ParseXWorldValues(e[2])>> ELSE e

\* the outcome of every line of every dump, computed once
LineOutcomes ==
    [d \in DOMAIN Dumps |-> [i \in DOMAIN Dumps[d] |-> LineOutcome(Dumps[d][i])]]

DumpLen == [d \in DOMAIN Dumps |-> Len(Dumps[d])]

CurrentOutcome == LineOutcomes[run.dump][run.idx]

\* lines 385-392, 398-403: a line that is passed over
IngestSkipLine ==
    /\ run.pc = "lines" /\ run.idx <= DumpLen[run.dump]
    /\ CurrentOutcome = <<"skip">>
    /\ run' = [run EXCEPT !.idx = @ + 1, !.last = "skipped"]
    /\ UNCHANGED <<today, tables, calls>>
    /\ UNCHANGED parseVars
    /\ UNCHANGED <<afkVars, allyVars, regVars, concVars>>

\* line 404: the slice panics and the call never returns
IngestPanic ==
    /\ run.pc = "lines" /\ run.idx <= DumpLen[run.dump]
    /\ CurrentOutcome = <<"panic">>
    /\ run' = [run EXCEPT !.pc = "panicked", !.last = "panic"]
    /\ UNCHANGED <<today, tables, calls>>
    /\ UNCHANGED parseVars
    /\ UNCHANGED <<afkVars, allyVars, regVars, concVars>>

\* lines 407, 415-417: the parser reports failure, the line is logged
IngestParseFailure ==
    /\ run.pc = "lines" /\ run.idx <= DumpLen[run.dump]
    /\ CurrentOutcome[1] = "values"
    /\ CurrentOutcome[3] = <<>>
    /\ run' = [run EXCEPT !.idx = @ + 1, !.last = "parse_failed"]
    /\ UNCHANGED <<today, tables, calls>>
    /\ UNCHANGED parseVars
    /\ UNCHANGED <<afkVars, allyVars, regVars, concVars>>

\* lines 407-409: the record is inserted and counted
IngestInsert ==
    /\ run.pc = "lines" /\ run.idx <= DumpLen[run.dump]
    /\ CurrentOutcome[1] = "values"
    /\ LET r == CurrentOutcome[3] IN
       /\ r # <<>>
       /\ tables' = [tables EXCEPT ![run.table_name] =
                        Append(@, RowOf(Unwrap(r), run.server_id))]
       /\ run' = [run EXCEPT !.idx = @ + 1, !.last = "inserted",
                             !.village_count = @ + 1,
                             !.accepted = Append(@, RowOf(Unwrap(r), run.server_id))]
    /\ UNCHANGED <<today, calls>>
    /\ UNCHANGED parseVars
    /\ UNCHANGED <<afkVars, allyVars, regVars, concVars>>

\* lines 410-413: the store rejects the INSERT, the line is logged
IngestInsertFailure ==
    /\ run.pc = "lines" /\ run.idx <= DumpLen[run.dump]
    /\ CurrentOutcome[1] = "values"
    /\ CurrentOutcome[3] # <<>>
    /\ run.insert_failures < MaxInsertFailures
    /\ run' = [run EXCEPT !.idx = @ + 1, !.last = "insert_failed",
                          !.insert_failures = @ + 1]
    /\ UNCHANGED <<today, tables, calls>>
    /\ UNCHANGED parseVars
    /\ UNCHANGED <<afkVars, allyVars, regVars, concVars>>

\* pruning and returning while lines are left
IngestCleanupBeforeLastLine ==
    /\ run.pc = "lines"
    /\ tables' = CleanupOldTables(tables)
    /\ run' = [run EXCEPT !.pc = "done", !.last = "cleanup",
                          !.ret = Some(run.village_count)]
    /\ UNCHANGED <<today, calls>>
    /\ UNCHANGED parseVars
    /\ UNCHANGED <<afkVars, allyVars, regVars, concVars>>

\* lines 424-427: prune, then return the count
IngestCleanup ==
    /\ run.pc = "lines" /\ run.idx > DumpLen[run.dump]
    /\ tables' = CleanupOldTables(tables)
    /\ run' = [run EXCEPT !.pc = "done", !.last = "cleanup",
                          !.ret = Some(run.village_count)]
    /\ UNCHANGED <<today, calls>>
    /\ UNCHANGED parseVars
    /\ UNCHANGED <<afkVars, allyVars, regVars, concVars>>

Next ==
    \/ Tick
    \/ \E server_id \in Servers, dump \in DOMAIN Dumps : IngestStart(server_id, dump)
    \/ IngestClear
    \/ IngestSkipLine
    \/ IngestPanic
    \/ IngestParseFailure
    \/ IngestInsert
    \/ IngestInsertFailure
    \/ IngestCleanup

Spec == Init /\ [][Next]_vars

-----------------------------------------------------------------------------
(* parse_x_world_values as a state machine *)

ParseInit ==
    /\ StoreIdle
    /\ AfkIdle
    /\ AllyIdle
    /\ ConcIdle
    /\ RegIdle
    /\ values_str \in ParseInputs
    /\ pos = 1
    /\ tok = TokInit
    /\ parsed = <<>>
    /\ ppc = "scan"

\* one iteration of the character loop
TokChar ==
    /\ ppc = "scan"
    /\ pos <= Len(values_str)
    /\ tok' = TokStep(tok, values_str[pos])
    /\ pos' = pos + 1
    /\ UNCHANGED <<values_str, parsed, ppc>>
    /\ UNCHANGED storeVars
    /\ UNCHANGED <<afkVars, allyVars, regVars, concVars>>

\* the loop is over: push the last field when it is not empty
TokEnd ==
    /\ ppc = "scan"
    /\ pos > Len(values_str)
    /\ tok' = [tok EXCEPT !.parts = TokFinish(tok)]
    /\ ppc' = "split"
    /\ UNCHANGED <<values_str, pos, parsed>>
    /\ UNCHANGED storeVars
    /\ UNCHANGED <<afkVars, allyVars, regVars, concVars>>

\* length check and positional mapping
ParseFields ==
    /\ ppc = "split"
    /\ parsed' = MapFields(tok.parts)
    /\ ppc' = "done"
    /\ UNCHANGED <<values_str, pos, tok>>
    /\ UNCHANGED storeVars
    /\ UNCHANGED <<afkVars, allyVars, regVars, concVars>>

ParseNext == TokChar \/ TokEnd \/ ParseFields

SpecParse == ParseInit /\ [][ParseNext]_vars

-----------------------------------------------------------------------------
(* Properties of the partition lifecycle and the ingestion (Spec) *)

ServerDates(store, server_id) ==
    {n[3] : n \in {m \in DOMAIN store :
                      Len(m) = 3 /\ m[1] = "villages_server" /\ m[2] = server_id}}

\* the n latest dates of a set
MostRecent(S, n) == {d \in S : Cardinality({e \in S : e > d}) < n}

OnlyProgramTables == \A n \in DOMAIN tables : n[1] = "villages_server"

\* C1: once an ingest call has returned, its server has at most 10 dated
\* partitions, in a store that holds only tables this program creates.
C1_AtMostTenPartitions ==
    (run.pc = "done" /\ OnlyProgramTables)
        => Cardinality(ServerDates(tables, run.server_id)) <= 10

\* C2: the pruning step of an ingest for server S leaves S exactly its 10 most
\* recent partition dates: the older ones are dropped, none of the 10 is.
C2_PruneKeepsTenMostRecent ==
    [][(run.pc = "lines" /\ run'.pc = "done")
          => ServerDates(tables', run.server_id)
               = MostRecent(ServerDates(tables, run.server_id), 10)]_vars

\* C3: when an ingest call has returned, today's partition of its server holds
\* exactly the records that call got accepted, as many as the count it
\* returned; nothing an earlier call of the same day loaded is left.
C3_ReingestReplaces ==
    run.pc = "done"
        => /\ tables[run.table_name] = run.accepted
           /\ CountWhere(tables[run.table_name], run.server_id) = Unwrap(run.ret)

\* a second call of the day has returned, after a first one that had loaded
\* other rows into the same partition
C3_Witness ==
    /\ run.pc = "done"
    /\ run.prior # <<>>
    /\ run.accepted # <<>>
    /\ \E i \in DOMAIN run.prior : \A j \in DOMAIN run.accepted :
          run.prior[i] # run.accepted[j]
    /\ \A i \in DOMAIN run.prior : run.prior[i].server_id = run.server_id

\* C4: no step of an ingest for server A creates, changes or drops a partition
\* of another server.
C4_OtherServersUntouched ==
    [][\A n \in DOMAIN tables :
          (n[1] = "villages_server" /\ n[2] # run'.server_id)
              => (n \in DOMAIN tables' /\ tables'[n] = tables[n])]_vars

\* C5: no line of a dump aborts the run.
C5_NoLineAbortsTheRun == run.pc # "panicked"

\* the fields of the value list of the line the loop is at
LineParts ==
    [d \in DOMAIN Dumps |->
        [i \in DOMAIN Dumps[d] |->
            IF LineOutcomes[d][i][1] = "values" THEN Tokenize(LineOutcomes[d][i][2])
            ELSE <<>>]]

CurrentParts == LineParts[run.dump][run.idx]

IsNumeral(f) ==
    LET digits == IF f # <<>> /\ f[1] \in {"+", "-"} THEN Tail(f) ELSE f IN
    digits # <<>> /\ \A i \in DOMAIN digits : digits[i] \in Digits

\* no i32: not a numeral, or ten digits or more starting with 9
NoI32(f) == ~IsNumeral(f) \/ (Len(f) >= 10 /\ f[1] = "9")

\* C8: a value list of fewer than 11 fields is rejected, adds no row and is not
\* counted, and the loop goes on with the next line; one of 11 fields or more
\* is parsed and handed to the INSERT, with 0 for an x, y or population and
\* None for an optional identifier that is no i32.
C8_RejectedIffFewerThanEleven ==
    [][(/\ run.pc = "lines"
        /\ run.idx <= DumpLen[run.dump]
        /\ CurrentOutcome[1] = "values"
        /\ run' # run)
        => /\ run'.pc = "lines"
           /\ run'.idx = run.idx + 1
           /\ IF Len(CurrentParts) < 11
              THEN /\ run'.last = "parse_failed"
                   /\ tables' = tables
                   /\ run'.village_count = run.village_count
              ELSE /\ run'.last \in {"inserted", "insert_failed"}
                   /\ run'.last = "insert_failed"
                        => (tables' = tables /\ run'.village_count = run.village_count)
                   /\ run'.last = "inserted"
                        => LET rows == tables'[run.table_name]
                               row == rows[Len(rows)]
                           IN /\ Len(rows) = Len(tables[run.table_name]) + 1
                              /\ run'.village_count = run.village_count + 1
                              /\ NoI32(CurrentParts[2]) => row.x = 0
                              /\ NoI32(CurrentParts[3]) => row.y = 0
                              /\ NoI32(CurrentParts[11]) => row.population = 0
                              /\ NoI32(CurrentParts[1]) => row.worldid = None
                              /\ NoI32(CurrentParts[4]) => row.tid = None
                              /\ NoI32(CurrentParts[5]) => row.vid = None
                              /\ NoI32(CurrentParts[7]) => row.uid = None
                              /\ NoI32(CurrentParts[9]) => row.aid = None]_vars

\* a line of too few fields has just been rejected, after a line whose
\* unparsable numbers were replaced, with a line still to come
C8_Witness ==
    /\ run.pc = "lines"
    /\ run.last = "parse_failed"
    /\ run.idx <= DumpLen[run.dump]
    /\ run.accepted # <<>>
    /\ run.accepted[1].x = 0 /\ run.accepted[1].population = 0
    /\ run.accepted[1].worldid = None

-----------------------------------------------------------------------------
(* Properties of the parser (SpecParse) *)

\* state of the quoting after s, read as the format is described: "" outside a
\* span, else the character that opened the span
RECURSIVE QuoteAfter(_, _)
QuoteAfter(s, q) ==
    IF s = <<>> THEN q
    ELSE IF q = "" THEN QuoteAfter(Tail(s), IF Head(s) \in {SQ, DQ} THEN Head(s) ELSE "")
    ELSE QuoteAfter(Tail(s), IF Head(s) = q THEN "" ELSE q)

BalancedQuoting(s) == QuoteAfter(s, "") = ""

UnquotedCommas(s) ==
    Cardinality({i \in DOMAIN s : s[i] = COMMA /\ QuoteAfter(SubSeq(s, 1, i - 1), "") = ""})

\* C6: a value list with balanced quoting is split into (commas outside quoted
\* spans) + 1 fields, also when it is empty or ends with a comma.
C6_FieldCount ==
    (ppc \in {"split", "done"} /\ BalancedQuoting(values_str))
        => Len(tok.parts) = UnquotedCommas(values_str) + 1

\* C7: while a span is open, a comma ends no field and a quote of the other
\* kind leaves the span open with the same closing character; the character
\* that opened the span closes it.
C7_SpanClosedOnlyByItsQuote ==
    [][(ppc = "scan" /\ pos <= Len(values_str) /\ pos' = pos + 1 /\ tok.in_quotes)
        => IF values_str[pos] = tok.quote_char
           THEN ~tok'.in_quotes /\ tok'.parts = tok.parts
           ELSE /\ tok'.in_quotes
                /\ tok'.quote_char = tok.quote_char
                /\ tok'.parts = tok.parts
                /\ tok'.current = Append(tok.current, values_str[pos])]_vars

\* inside a span opened by ', a " and then a comma have been read
C7_Witness ==
    /\ ppc = "scan"
    /\ pos > 3
    /\ tok.in_quotes /\ tok.quote_char = SQ
    /\ values_str[pos - 2] = DQ /\ values_str[pos - 1] = COMMA
    /\ tok.parts = <<>>

NameOk(text, name) ==
    IF text = NULLTEXT \/ text = <<>>
    THEN name = None
    ELSE name = Some(StripQuotes(text)) /\ Unwrap(name) # <<>>

\* C9: the owner name and the alliance name of a parsed settlement are absent
\* when the field is NULL or empty, else the field's text without its quotes,
\* and never an empty string.
C9_NamesAbsentOrNonEmpty ==
    (ppc = "done" /\ parsed # <<>>)
        => /\ NameOk(tok.parts[8], Unwrap(parsed).player)
           /\ NameOk(tok.parts[10], Unwrap(parsed).alliance)

-----------------------------------------------------------------------------
(* find_afk_villages_for_server *)

NATARS == <<"N", "a", "t", "a", "r", "s">>

\* the quadrant conditions with those of SE and SW exchanged
QuadrantConditionsSouthSwapped(quadrant) ==
    CASE quadrant = "NE" -> Some([x_nonneg |-> TRUE, y_nonneg |-> TRUE])
      [] quadrant = "SE" -> Some([x_nonneg |-> FALSE, y_nonneg |-> FALSE])
      [] quadrant = "SW" -> Some([x_nonneg |-> TRUE, y_nonneg |-> FALSE])
      [] quadrant = "NW" -> Some([x_nonneg |-> FALSE, y_nonneg |-> TRUE])
      [] OTHER -> None

\* the conditions of `match params.quadrant.as_str()`, None for `_`
QuadrantConditions(quadrant) ==
    CASE quadrant = "NE" -> Some([x_nonneg |-> TRUE, y_nonneg |-> TRUE])
      [] quadrant = "SE" -> Some([x_nonneg |-> TRUE, y_nonneg |-> FALSE])
      [] quadrant = "SW" -> Some([x_nonneg |-> FALSE, y_nonneg |-> FALSE])
      [] quadrant = "NW" -> Some([x_nonneg |-> FALSE, y_nonneg |-> TRUE])
      [] OTHER -> None

\* SQL `a = b` on nullable text: true only when neither is NULL
SqlTextEq(a, b) == a # None /\ b # None /\ a = b

\* village_query asking for a population that fell (l.population < c.population)
VillageQueryMatchStrictlyLess(l, c, server_id, cond) ==
    /\ l.x = c.x /\ l.y = c.y /\ l.server_id = c.server_id
    /\ l.server_id = server_id
    /\ c.server_id = server_id
    /\ l.player # <<>>
    /\ l.player[1] # <<>>
    /\ l.player[1] # <<"N", "a", "t", "a", "r", "s">>
    /\ c.player # <<>> /\ c.player = l.player
    /\ l.population < c.population
    /\ (l.x >= 0) = cond.x_nonneg
    /\ (l.y >= 0) = cond.y_nonneg

\* the WHERE and ON clauses of village_query for one pair of rows
VillageQueryMatch(l, c, server_id, cond) ==
    /\ l.x = c.x /\ l.y = c.y /\ l.server_id = c.server_id
    /\ l.server_id = server_id
    /\ c.server_id = server_id
    /\ l.player # None
    /\ Unwrap(l.player) # <<>>
    /\ Unwrap(l.player) # NATARS
    /\ SqlTextEq(c.player, l.player)
    /\ l.population <= c.population
    /\ (l.x >= 0) = cond.x_nonneg
    /\ (l.y >= 0) = cond.y_nonneg

\* rows of `latest JOIN comparison`, as pairs of row indexes, in scan order
RECURSIVE JoinPairs(_, _, _, _)
JoinPairs(nl, nc, i, j) ==
    IF i > nl THEN <<>>
    ELSE IF j > nc THEN JoinPairs(nl, nc, i + 1, 1)
    ELSE <<<<i, j>>>> \o JoinPairs(nl, nc, i, j + 1)

VillageRows(latest, comparison, server_id, cond) ==
    LET pairs == JoinPairs(Len(latest), Len(comparison), 1, 1)
        hits == SelectSeq(pairs, LAMBDA p :
                    VillageQueryMatch(latest[p[1]], comparison[p[2]], server_id, cond))
    IN [k \in 1..Len(hits) |-> latest[hits[k][1]]]

RECURSIVE SumPopulation(_)
SumPopulation(rows) ==
    IF rows = <<>> THEN 0 ELSE Head(rows).population + SumPopulation(Tail(rows))

\* player_growth_query: latest LEFT JOIN comparison ON the player name, summed
\* over the joined rows.  Every latest row of the player is paired with every
\* comparison row of the player (with one NULL row when there is none).
PlayerGrowth(latest, comparison, server_id, player_name) ==
    LET ls == SelectSeq(latest, LAMBDA l :
                  l.server_id = server_id /\ SqlTextEq(l.player, Some(player_name)))
        cs == SelectSeq(comparison, LAMBDA c :
                  c.server_id = server_id /\ SqlTextEq(c.player, Some(player_name)))
    IN IF ls = <<>> THEN None
       ELSE Some([latest_total |->
                      SumPopulation(ls) * (IF cs = <<>> THEN 1 ELSE Len(cs)),
                  comparison_total |-> SumPopulation(cs) * Len(ls)])

HasGrown(growth_row) ==
    IF growth_row # None
    THEN Unwrap(growth_row).latest_total > Unwrap(growth_row).comparison_total
    ELSE FALSE

AfkVillage(row, days) ==
    [village_name |-> row.village, x |-> row.x, y |-> row.y,
     population |-> row.population, player_name |-> Unwrap(row.player),
     alliance |-> row.alliance, days_without_growth |-> days]

\* stable sort, population descending (sort_by(|a, b| b.population.cmp(&a.population)))
RECURSIVE InsertByPopulation(_, _)
InsertByPopulation(sorted, v) ==
    IF sorted = <<>> THEN <<v>>
    ELSE IF Head(sorted).population >= v.population
    THEN <<Head(sorted)>> \o InsertByPopulation(Tail(sorted), v)
    ELSE <<v>> \o sorted

RECURSIVE SortByPopulationDesc(_)
SortByPopulationDesc(vs) ==
    IF vs = <<>> THEN <<>>
    ELSE InsertByPopulation(SortByPopulationDesc(SubSeq(vs, 1, Len(vs) - 1)), vs[Len(vs)])

\* usize is 64 bits wide, beyond the integers of the checker.  The code only
\* adds 1 to the converted day count, compares it with a list length and uses
\* it as an index, so a modulus far above every length and day count of the
\* model gives the same outcomes.
UsizeModulus == 1073741824

\* `params.days as usize`
AsUsize(n) == n % UsizeModulus

\* the panics of lines 982-987.  `params.days as usize + 1` overflows for
\* days = -1: a build with overflow checks panics there, one without wraps to
\* 0 and goes on to the indexing.
FindAfkPanics(store, server_id, days, overflow_checks) ==
    LET available_dates == GetAvailableDatesForServer(store, server_id)
        sum == AsUsize(days) + 1
    IN IF sum >= UsizeModulus /\ overflow_checks THEN TRUE
       ELSE IF Len(available_dates) < sum % UsizeModulus THEN FALSE
       ELSE Len(available_dates) = 0 \/ AsUsize(days) >= Len(available_dates)

\* latest_table and comparison_table (lines 986-990), <<>> when the call
\* returns before it names them
AfkTables(store, server_id, days) ==
    LET available_dates == GetAvailableDatesForServer(store, server_id) IN
    IF Len(available_dates) < AsUsize(days) + 1 THEN <<>>
    ELSE <<GetTableNameForServerAndDate(server_id, available_dates[1][1]),
           GetTableNameForServerAndDate(server_id, available_dates[AsUsize(days) + 1][1])>>

\* lines 979-1096 when nothing panics; <<>> is Err, <<list>> is Ok(list)
FindAfkVillagesForServer(store, server_id, quadrant, days) ==
    LET used == AfkTables(store, server_id, days) IN
    IF used = <<>> THEN Some(<<>>)
    ELSE
    LET latest == store[used[1]]
        comparison == store[used[2]]
        cond == QuadrantConditions(quadrant)
    IN
    IF cond = None THEN <<>>
    ELSE
    LET village_rows == VillageRows(latest, comparison, server_id, Unwrap(cond))
        kept == SelectSeq(village_rows, LAMBDA row :
                    ~HasGrown(PlayerGrowth(latest, comparison, server_id,
                                           Unwrap(row.player))))
    IN Some(SortByPopulationDesc([k \in 1..Len(kept) |-> AfkVillage(kept[k], days)]))

\* SQL statements sent to the store by the time the call returns: the table
\* listing and one COUNT per table (get_available_dates_for_server), the two
\* EXISTS checks, the village query and one growth query per row it gave
AfkQueries(store, server_id, quadrant, days) ==
    LET listing == 1 + Len(GetAvailableDatesForServer(store, server_id))
        used == AfkTables(store, server_id, days)
        cond == QuadrantConditions(quadrant)
    IN IF used = <<>> THEN listing
       ELSE IF cond = None THEN listing + 2
       ELSE listing + 2 + 1
              + Len(VillageRows(store[used[1]], store[used[2]], server_id, Unwrap(cond)))

-----------------------------------------------------------------------------
(* The snapshots of one server and a stagnation request *)

AfkServer == 1

AfkCoords == << <<-3, 7>>, <<2, 5>> >>
AfkOwners == { Some(<<"P">>), Some(<<"Q">>), Some(NATARS), None }
MaxPopulation == 2
MaxDays == 2

AfkRow(coord, owner, population) ==
    [server_id |-> AfkServer, worldid |-> Some(1), x |-> coord[1], y |-> coord[2],
     tid |-> Some(1), vid |-> Some(1), village |-> <<"V">>, uid |-> Some(1),
     player |-> owner, aid |-> Some(0), alliance |-> None,
     population |-> population]

\* what one coordinate can hold in one snapshot: nothing, or one settlement
AfkCell(coord, owners, populations) ==
    {<<>>} \cup {<<AfkRow(coord, o, p)>> : o \in owners, p \in populations}

\* the snapshots one server can hold over AfkCoords: settlements of two
\* players of any size, or settlements of size 1 of any kind of owner
AfkPlayers == { Some(<<"P">>), Some(<<"Q">>) }

AfkSnapshotsOf(owners, populations) ==
    {a \o b : a \in AfkCell(AfkCoords[1], owners, populations),
              b \in AfkCell(AfkCoords[2], owners, populations)}

AfkSnapshotPairs ==
    (AfkSnapshotsOf(AfkPlayers, 1..MaxPopulation)
        \X AfkSnapshotsOf(AfkPlayers, 1..MaxPopulation))
    \cup (AfkSnapshotsOf(AfkOwners, {1}) \X AfkSnapshotsOf(AfkOwners, {1}))

\* two consecutive days, a snapshot on each
AfkTwoDayStores ==
    {(GetTableNameForServerAndDate(AfkServer, StartDay - 1) :> pair[1])
        @@ (GetTableNameForServerAndDate(AfkServer, StartDay) :> pair[2]) :
     pair \in AfkSnapshotPairs}

\* snapshot dates with and without gaps, from no snapshot to four
AfkDateSets ==
    { {}, {StartDay}, {StartDay - 3, StartDay}, {StartDay - 2, StartDay - 1, MaxDay},
      {1, 2, 3, StartDay - 1} }

\* one unchanged settlement of P on every date, its village named after the date
AfkDatedStores ==
    {[n \in {GetTableNameForServerAndDate(AfkServer, d) : d \in dates} |->
         <<[AfkRow(AfkCoords[1], Some(<<"P">>), 1) EXCEPT !.village = DateText[n[3]]]>>] :
     dates \in AfkDateSets}

\* coordinates on and next to the axes
AxisCoords == << <<0, 0>>, <<0, -1>>, <<-1, 0>>, <<-1, -1>>, <<1, 1>> >>

\* two consecutive days with the same settlements, one per coordinate of AxisCoords
AfkAxisStores ==
    LET rows == [k \in DOMAIN AxisCoords |-> AfkRow(AxisCoords[k], Some(<<"P">>), 1)] IN
    {(GetTableNameForServerAndDate(AfkServer, StartDay - 1) :> rows)
        @@ (GetTableNameForServerAndDate(AfkServer, StartDay) :> rows)}

AfkQuadrants == {"NE", "SE", "SW", "NW", "N"}

\* day counts outside the documented 1-10 and inside
AfkDays == {-2, -1, 0, 11} \cup 1..MaxDays

AfkInit ==
    /\ ParseIdle
    /\ AfkIdle
    /\ AllyIdle
    /\ ConcIdle
    /\ RegIdle
    /\ today = StartDay
    /\ run = RunIdle
    /\ calls = 0
    /\ tables \in AfkTwoDayStores \cup AfkDatedStores \cup AfkAxisStores

FindAfkVillages(quadrant, days) ==
    /\ afk.pc = "idle"
    /\ \E overflow_checks \in (IF AsUsize(days) + 1 >= UsizeModulus THEN BOOLEAN ELSE {TRUE}) :
          IF FindAfkPanics(tables, AfkServer, days, overflow_checks)
          THEN afk' = [pc |-> "panicked", quadrant |-> quadrant, days |-> days,
                       used |-> <<>>,
                       queries |-> 1 + Len(GetAvailableDatesForServer(tables, AfkServer)),
                       ret |-> <<>>]
          ELSE afk' = [pc |-> "done", quadrant |-> quadrant, days |-> days,
                       used |-> AfkTables(tables, AfkServer, days),
                       queries |-> AfkQueries(tables, AfkServer, quadrant, days),
                       ret |-> FindAfkVillagesForServer(tables, AfkServer, quadrant, days)]
    /\ UNCHANGED storeVars
    /\ UNCHANGED parseVars
    /\ UNCHANGED <<allyVars, regVars, concVars>>

AfkNext == \E quadrant \in AfkQuadrants, days \in AfkDays : FindAfkVillages(quadrant, days)

SpecAfk == AfkInit /\ [][AfkNext]_vars

-----------------------------------------------------------------------------
(* Properties of the stagnation query (SpecAfk) *)

\* the two partitions a request compared
AfkLatest == tables[afk.used[1]]
AfkReference == tables[afk.used[2]]

\* population of all settlements of an owner in a snapshot
OwnerTotal(rows, player_name) ==
    SumPopulation(SelectSeq(rows, LAMBDA r : r.player = Some(player_name)))

\* C10: every settlement returned belongs to an owner whose total population
\* over all settlements in the latest partition is not greater than the total
\* over all settlements in the reference partition.
C10_OwnerDidNotGrow ==
    (afk.pc = "done" /\ afk.days = 1 /\ afk.ret # <<>> /\ afk.used # <<>>)
        => \A k \in DOMAIN Unwrap(afk.ret) :
              OwnerTotal(AfkLatest, Unwrap(afk.ret)[k].player_name)
                  <= OwnerTotal(AfkReference, Unwrap(afk.ret)[k].player_name)

ValidQuadrants == {"NE", "SE", "SW", "NW"}

\* the settlements of a result, as <<x, y, player_name>>
Returned(ret) == {<<ret[1][k].x, ret[1][k].y, ret[1][k].player_name>> : k \in DOMAIN ret[1]}

\* the rows of a snapshot owned by a player
OwnedBy(rows, player_name) == SelectSeq(rows, LAMBDA r : r.player = Some(player_name))

\* the quadrant of a coordinate pair, from the signs
QuadrantOf(x, y) ==
    IF x >= 0 THEN (IF y >= 0 THEN "NE" ELSE "SE") ELSE (IF y >= 0 THEN "NW" ELSE "SW")

\* C11: a player (named, not Natars) with exactly one settlement in the latest
\* partition and exactly one in the reference partition, at the same
\* coordinates and of the same population, has that settlement returned when
\* the requested quadrant contains it.
C11_UnchangedSingleSettlementReported ==
    (afk.pc = "done" /\ afk.used # <<>> /\ afk.quadrant \in ValidQuadrants)
        => \A p \in {<<"P">>, <<"Q">>} :
              LET ls == OwnedBy(AfkLatest, p)
                  cs == OwnedBy(AfkReference, p)
              IN (/\ Len(ls) = 1 /\ Len(cs) = 1
                  /\ ls[1].x = cs[1].x /\ ls[1].y = cs[1].y
                  /\ ls[1].population = cs[1].population
                  /\ QuadrantOf(ls[1].x, ls[1].y) = afk.quadrant)
                 => (afk.ret # <<>> /\ <<ls[1].x, ls[1].y, p>> \in Returned(afk.ret))

\* Q's only settlement, unchanged since the day before, has been returned
C11_Witness ==
    /\ afk.pc = "done" /\ afk.days = 1 /\ afk.quadrant = "NE" /\ afk.used # <<>>
    /\ Len(OwnedBy(AfkLatest, <<"Q">>)) = 1
    /\ OwnedBy(AfkLatest, <<"Q">>) = OwnedBy(AfkReference, <<"Q">>)
    /\ afk.ret # <<>>
    /\ <<2, 5, <<"Q">>>> \in Returned(afk.ret)

\* the dates of the server's partitions
AfkDates == ServerDates(tables, AfkServer)

\* the n-th latest date of a set, n >= 1
NthLatest(S, n) == CHOOSE d \in S : Cardinality({e \in S : e > d}) = n - 1

\* C12: the list of a server's partitions is in strictly descending date order,
\* its first entry being the latest date; a request for daysBack >= 1 compares
\* the first entry with the entry daysBack positions further, whatever the
\* calendar gaps between the dates, when there are at least daysBack + 1.
C12_ReferenceByPosition ==
    LET available_dates == GetAvailableDatesForServer(tables, AfkServer) IN
    /\ Len(available_dates) = Cardinality(AfkDates)
    /\ \A i \in DOMAIN available_dates :
          available_dates[i][1] = NthLatest(AfkDates, i)
    /\ (afk.pc = "done" /\ afk.days >= 1)
          => IF Cardinality(AfkDates) >= afk.days + 1
             THEN afk.used =
                    <<GetTableNameForServerAndDate(AfkServer, NthLatest(AfkDates, 1)),
                      GetTableNameForServerAndDate(AfkServer,
                                                   NthLatest(AfkDates, afk.days + 1))>>
             ELSE afk.used = <<>>

\* two snapshots back over a gap in the dates, across the 9th and 10th of a month
C12_Witness ==
    /\ afk.pc = "done" /\ afk.days = 2
    /\ AfkDates = {StartDay - 2, StartDay - 1, MaxDay}
    /\ afk.used[2] = GetTableNameForServerAndDate(AfkServer, StartDay - 2)

\* what a request for another quadrant returns from the same store
ReturnedFor(quadrant) ==
    Returned(FindAfkVillagesForServer(tables, AfkServer, quadrant, afk.days))

\* C13: each coordinate pair is in exactly one quadrant, and a settlement is
\* returned for the quadrant its coordinates are in and for no other.
C13_ExactlyOneQuadrant ==
    /\ \A x \in -3..3, y \in -3..3 :
          Cardinality({q \in ValidQuadrants :
                          LET cond == Unwrap(QuadrantConditions(q)) IN
                          (x >= 0) = cond.x_nonneg /\ (y >= 0) = cond.y_nonneg}) = 1
    /\ (afk.pc = "done" /\ afk.quadrant \in ValidQuadrants /\ afk.used # <<>>)
          => /\ \A v \in Returned(afk.ret) : QuadrantOf(v[1], v[2]) = afk.quadrant
             /\ \A q \in ValidQuadrants \ {afk.quadrant} :
                   /\ ReturnedFor(q) \cap Returned(afk.ret) = {}
                   /\ \A v \in ReturnedFor(q) : QuadrantOf(v[1], v[2]) # afk.quadrant

\* the settlement at (-3, 7) has been returned for NW
C13_Witness ==
    /\ afk.pc = "done" /\ afk.quadrant = "NW" /\ afk.ret # <<>>
    /\ \E v \in Returned(afk.ret) : v[1] = -3 /\ v[2] = 7
    /\ \A q \in {"NE", "SE", "SW"} : \A v \in ReturnedFor(q) : ~(v[1] = -3 /\ v[2] = 7)

\* C14: a request with daysBack outside 1..10 or a quadrant other than NE, SE,
\* SW, NW returns an error, and no query has been sent to the store.
C14_InvalidRequestRejectedFirst ==
    (afk.pc # "idle" /\ (afk.days \notin 1..10 \/ afk.quadrant \notin ValidQuadrants))
        => /\ afk.pc = "done"
           /\ afk.ret = <<>>
           /\ afk.queries = 0

-----------------------------------------------------------------------------
(* get_alliance_info_for_server *)

TopLimit == 20

SLASH == "/"
MAP_SQL == <<"m", "a", "p", ".", "s", "q", "l">>
ALLIANCE_PATH == <<"/", "a", "l", "l", "i", "a", "n", "c", "e", "/">>

EndsWith(s, p) == Len(s) >= Len(p) /\ SubSeq(s, Len(s) - Len(p) + 1, Len(s)) = p

\* str::trim_end_matches(pattern): the pattern is removed as often as it ends the text
RECURSIVE TrimEndMatchesStr(_, _)
TrimEndMatchesStr(s, p) ==
    IF p # <<>> /\ EndsWith(s, p) THEN TrimEndMatchesStr(SubSeq(s, 1, Len(s) - Len(p)), p)
    ELSE s

\* decimal text of an i32
FormatI32(n) == IF n < 0 THEN <<"-">> \o Decimal(-n) ELSE Decimal(n)

\* get_active_server: SELECT ... WHERE is_active = TRUE LIMIT 1
GetActiveServer(rows) ==
    IF \E r \in rows : r.is_active THEN Some(CHOOSE r \in rows : r.is_active) ELSE None

\* server_base_url
ServerBaseUrl(active_server) ==
    IF active_server = None THEN None
    ELSE Some(TrimMatchesEnd(
                 TrimEndMatchesStr(
                     TrimEndMatchesStr(Unwrap(active_server).url, <<SLASH>> \o MAP_SQL),
                     MAP_SQL),
                 SLASH))

AllianceLink(base_url, alliance_id) ==
    IF base_url # None /\ alliance_id # None
    THEN Some(Unwrap(base_url) \o ALLIANCE_PATH \o FormatI32(Unwrap(alliance_id)))
    ELSE None

\* WHERE server_id = $1 AND alliance IS NOT NULL AND alliance != '' AND alliance != 'Natars'
NamedAlliance(r, server_id) ==
    /\ r.server_id = server_id
    /\ r.alliance # None
    /\ Unwrap(r.alliance) # <<>>
    /\ Unwrap(r.alliance) # NATARS

\* the groups of GROUP BY alliance, aid, in the order their first rows come
RECURSIVE GroupKeys(_)
GroupKeys(rows) ==
    IF rows = <<>> THEN <<>>
    ELSE LET rest == GroupKeys(SubSeq(rows, 1, Len(rows) - 1))
             key == <<rows[Len(rows)].alliance, rows[Len(rows)].aid>>
         IN IF \E i \in DOMAIN rest : rest[i] = key THEN rest ELSE Append(rest, key)

Reverse(seq) == [i \in 1..Len(seq) |-> seq[Len(seq) + 1 - i]]

\* one row of alliance_query: COUNT(DISTINCT uid), COUNT(*), SUM(population)
AllianceGroup(rows, key) ==
    LET members == SelectSeq(rows, LAMBDA r : r.alliance = key[1] /\ r.aid = key[2]) IN
    [alliance |-> Unwrap(key[1]), aid |-> key[2],
     member_count |-> Cardinality({members[i].uid : i \in DOMAIN members} \ {None}),
     village_count |-> Len(members),
     total_population |-> SumPopulation(members)]

RECURSIVE InsertByTotal(_, _)
InsertByTotal(sorted, g) ==
    IF sorted = <<>> THEN <<g>>
    ELSE IF Head(sorted).total_population >= g.total_population
    THEN <<Head(sorted)>> \o InsertByTotal(Tail(sorted), g)
    ELSE <<g>> \o sorted

\* ORDER BY total_population DESC
RECURSIVE SortByTotalDesc(_)
SortByTotalDesc(gs) ==
    IF gs = <<>> THEN <<>>
    ELSE InsertByTotal(SortByTotalDesc(SubSeq(gs, 1, Len(gs) - 1)), gs[Len(gs)])

Limit(seq, n) == SubSeq(seq, 1, IF Len(seq) < n THEN Len(seq) ELSE n)

\* the groups of the latest partition, unsorted.  The store decides in
\* which order groups of equal total come; it is the order of their first
\* rows, or the reverse.
AllianceGroups(latest, server_id, reversed) ==
    LET named == SelectSeq(latest, LAMBDA r : NamedAlliance(r, server_id))
        keys == IF reversed THEN Reverse(GroupKeys(named)) ELSE GroupKeys(named)
    IN [k \in 1..Len(keys) |-> AllianceGroup(named, keys[k])]

\* alliance_query with LIMIT applied to the groups before they are ordered
AllianceRowsLimitFirst(latest, server_id, reversed) ==
    SortByTotalDesc(Limit(AllianceGroups(latest, server_id, reversed), TopLimit))

\* alliance_query: ... GROUP BY alliance, aid ORDER BY total_population DESC LIMIT 20
AllianceRows(latest, server_id, reversed) ==
    Limit(SortByTotalDesc(AllianceGroups(latest, server_id, reversed)), TopLimit)

\* prev_query read as an i64: SUM over no row is NULL, which does not decode
\* (None here, an Err of the call); else the sum
PrevPopulation(previous, server_id, alliance_name) ==
    LET ms == SelectSeq(previous, LAMBDA r :
                  r.server_id = server_id /\ SqlTextEq(r.alliance, Some(alliance_name)))
    IN IF ms = <<>> THEN None ELSE Some(SumPopulation(ms))

\* a percentage as the quotient the code computes in f64: num / den
Percent(num, den) == [num |-> num, den |-> den]
ZeroPercent == Percent(0, 1)

\* (population_growth, growth_percentage) against a previous total
Growth(current_population, prev_population) ==
    LET growth == current_population - prev_population IN
    <<growth,
      IF prev_population > 0 THEN Percent(growth * 100, prev_population) ELSE ZeroPercent>>

AllianceStats(row, growth, base_url) ==
    [alliance_name |-> row.alliance,
     alliance_id |-> row.aid,
     member_count |-> row.member_count,
     village_count |-> row.village_count,
     total_population |-> row.total_population,
     average_population_per_village |->
         IF row.village_count > 0 THEN row.total_population \div row.village_count ELSE 0,
     population_growth |-> growth[1],
     growth_percentage |-> growth[2],
     alliance_link |-> AllianceLink(base_url, row.aid)]

\* lines 1109-1261; <<>> is Err, <<info>> is Ok(info)
GetAllianceInfoForServer(store, server_rows, server_id, reversed) ==
    LET available_dates == GetAvailableDatesForServer(store, server_id) IN
    IF available_dates = <<>> THEN Some([top_alliances |-> <<>>, total_alliances |-> 0])
    ELSE
    LET latest == store[GetTableNameForServerAndDate(server_id, available_dates[1][1])]
        base_url == ServerBaseUrl(GetActiveServer(server_rows))
        alliance_rows == AllianceRows(latest, server_id, reversed)
        has_previous_data == Len(available_dates) > 1
        previous ==
            IF has_previous_data
            THEN store[GetTableNameForServerAndDate(server_id, available_dates[2][1])]
            ELSE <<>>
        prev(row) == PrevPopulation(previous, server_id, row.alliance)
        growth(row) ==
            IF has_previous_data
            THEN Growth(row.total_population, Unwrap(prev(row)))
            ELSE <<0, ZeroPercent>>
        named == SelectSeq(latest, LAMBDA r : NamedAlliance(r, server_id))
    IN IF has_previous_data /\ \E k \in DOMAIN alliance_rows : prev(alliance_rows[k]) = None
       THEN <<>>
       ELSE Some([top_alliances |->
                     [k \in DOMAIN alliance_rows |->
                         AllianceStats(alliance_rows[k], growth(alliance_rows[k]), base_url)],
                  total_alliances |->
                     Cardinality({named[i].alliance : i \in DOMAIN named})])

-----------------------------------------------------------------------------
(* The latest two snapshots of a server and an alliance request *)

AllyServer == AfkServer

AllyNames == { Some(<<"A">>), Some(<<"B">>), Some(NATARS), Some(<<>>), None }

\* the alliance id that goes with a name in a dump
AidOf(alliance) ==
    CASE alliance = Some(<<"A">>) -> Some(1)
      [] alliance = Some(<<"B">>) -> Some(2)
      [] alliance = None -> None
      [] OTHER -> Some(0)

AllyRow(alliance, aid, uid, population) ==
    [server_id |-> AllyServer, worldid |-> Some(1), x |-> 0, y |-> 0,
     tid |-> Some(1), vid |-> Some(1), village |-> <<"V">>, uid |-> uid,
     player |-> Some(<<"P">>), aid |-> aid, alliance |-> alliance,
     population |-> population]

\* a latest snapshot of at most two settlements, of one owner or of two
AllyLatestSnapshots ==
    {a \o b :
       a \in {<<>>} \cup {<<AllyRow(n, AidOf(n), Some(1), p)>> :
                            n \in AllyNames, p \in 0..MaxPopulation},
       b \in {<<>>} \cup {<<AllyRow(n, AidOf(n), u, p)>> :
                            n \in AllyNames, u \in {Some(1), Some(2)},
                            p \in 1..MaxPopulation}}

\* a previous snapshot of at most one settlement
AllyPreviousSnapshots ==
    {<<>>} \cup {<<AllyRow(n, AidOf(n), Some(1), p)>> :
                   n \in {Some(<<"A">>), Some(<<"B">>)}, p \in 0..MaxPopulation}

AllySmallStores ==
    {GetTableNameForServerAndDate(AllyServer, StartDay) :> latest :
        latest \in AllyLatestSnapshots}
    \cup
    {(GetTableNameForServerAndDate(AllyServer, StartDay - 1) :> previous)
        @@ (GetTableNameForServerAndDate(AllyServer, StartDay) :> latest) :
        previous \in AllyPreviousSnapshots, latest \in AllyLatestSnapshots}

\* more alliances than the list takes, several of equal size, and Natars
ManyAlliances ==
    [k \in 1..(TopLimit + 2) |->
        AllyRow(Some(<<"G">> \o Decimal(k)), Some(k), Some(k), 1 + ((k * 3) % 7))]
    \o <<AllyRow(Some(NATARS), Some(0), Some(0), 9)>>

\* one name under two alliance ids
SplitAlliance ==
    <<AllyRow(Some(<<"A">>), Some(1), Some(1), 2),
      AllyRow(Some(<<"A">>), None, Some(2), 2),
      AllyRow(Some(<<"B">>), Some(2), Some(3), 3)>>

AllyLargeStores ==
    {GetTableNameForServerAndDate(AllyServer, StartDay) :> latest :
        latest \in {ManyAlliances, SplitAlliance}}
    \cup
    {(GetTableNameForServerAndDate(AllyServer, StartDay - 1) :> latest)
        @@ (GetTableNameForServerAndDate(AllyServer, StartDay) :> latest) :
        latest \in {ManyAlliances, SplitAlliance}}

\* no server registered, or one, active, with its dump address
AllyServerRows ==
    { {},
      {[id |-> AllyServer, name |-> <<"s">>,
        url |-> <<"h", "/">> \o MAP_SQL, is_active |-> TRUE]} }

AllyInit ==
    /\ ParseIdle
    /\ AfkIdle
    /\ AllyIdle
    /\ ConcIdle
    /\ today = StartDay
    /\ run = RunIdle
    /\ calls = 0
    /\ tables \in AllySmallStores \cup AllyLargeStores
    /\ servers \in AllyServerRows
    /\ serial = Cardinality(servers)
    /\ op = OpIdle

GetAllianceInfo ==
    /\ ally.pc = "idle"
    /\ \E reversed \in BOOLEAN :
          ally' = [pc |-> "done", server_id |-> AllyServer,
                   ret |-> GetAllianceInfoForServer(tables, servers, AllyServer, reversed)]
    /\ UNCHANGED storeVars
    /\ UNCHANGED parseVars
    /\ UNCHANGED <<afkVars, regVars, concVars>>

AllyNext == GetAllianceInfo

SpecAlliance == AllyInit /\ [][AllyNext]_vars

-----------------------------------------------------------------------------
(* Properties of the alliance query (SpecAlliance) *)

AllyDates == GetAvailableDatesForServer(tables, AllyServer)
AllyLatest == tables[GetTableNameForServerAndDate(AllyServer, AllyDates[1][1])]
AllyPrevious == tables[GetTableNameForServerAndDate(AllyServer, AllyDates[2][1])]

\* total population of the rows of a snapshot that carry an alliance name
AllianceTotal(rows, alliance_name) ==
    SumPopulation(SelectSeq(rows, LAMBDA r : r.alliance = Some(alliance_name)))

\* the alliances the query lists, whichever way the store orders equal totals
ListedNames ==
    UNION {{AllianceRows(AllyLatest, AllyServer, reversed)[k].alliance :
               k \in DOMAIN AllianceRows(AllyLatest, AllyServer, reversed)} :
           reversed \in BOOLEAN}

\* C15: when a second-most-recent partition exists, the call succeeds and each
\* listed alliance whose total population there is 0, rows or no rows, is
\* reported with growth percentage 0 and growth equal to its current total.
C15_ZeroPreviousGivesZeroPercent ==
    (ally.pc = "done" /\ Len(AllyDates) > 1)
        => \A name \in ListedNames :
              AllianceTotal(AllyPrevious, name) = 0
                  => /\ ally.ret # <<>>
                     /\ \A k \in DOMAIN Unwrap(ally.ret).top_alliances :
                           LET e == Unwrap(ally.ret).top_alliances[k] IN
                           e.alliance_name = name
                               => /\ e.growth_percentage = ZeroPercent
                                  /\ e.population_growth = e.total_population

\* the (alliance, aid) groups of the latest partition with their totals
LatestGroups ==
    LET gs == AllianceGroups(AllyLatest, AllyServer, FALSE) IN
    {<<gs[k].alliance, gs[k].aid, gs[k].total_population>> : k \in DOMAIN gs}

-----------------------------------------------------------------------------
(* execute_sql_for_server as one call, and the automatic load *)

\* the element of a one-element set: the value is computed once, then named
Only(S) == CHOOSE v \in S : TRUE

\* the loop of lines 385-422 from line i on; the store rejects the first
\* `rejected` INSERT statements
RECURSIVE IngestLines(_, _, _, _)
IngestLines(acc, d, i, server_id) ==
    IF i > DumpLen[d] THEN acc
    ELSE LET o == LineOutcomes[d][i] IN
         IF o = <<"panic">> THEN [acc EXCEPT !.panicked = TRUE]
         ELSE IF o[1] = "values" /\ o[3] # <<>>
         THEN IF acc.rejected > 0
              THEN IngestLines([acc EXCEPT !.rejected = @ - 1], d, i + 1, server_id)
              ELSE IngestLines([acc EXCEPT !.rows = Append(@, RowOf(Unwrap(o[3]), server_id)),
                                           !.village_count = @ + 1],
                               d, i + 1, server_id)
         ELSE IngestLines(acc, d, i + 1, server_id)

\* lines 371-428: the store the call leaves and what it returns
ExecuteSqlForServer(store, d, server_id, day, rejected) ==
    LET table_name == GetTableNameForServerAndDate(server_id, day)
        created == CreateTableForServerAndDate(store, server_id, day)
    IN Only({ LET loaded == [created EXCEPT ![table_name] = loop.rows] IN
              IF loop.panicked THEN [store |-> loaded, ret |-> <<"panic">>]
              ELSE [store |-> CleanupOldTables(loaded),
                    ret |-> <<"ok", loop.village_count>>]
            : loop \in {IngestLines([rows |-> DeleteForServer(created[table_name], server_id),
                                     village_count |-> 0, rejected |-> rejected,
                                     panicked |-> FALSE],
                                    d, 1, server_id)} })

GetLatestDataDateForServer(store, server_id) ==
    LET available_dates == GetAvailableDatesForServer(store, server_id) IN
    IF available_dates = <<>> THEN None ELSE Some(available_dates[1][1])

\* a check that asks for new data whatever the store holds
IsNewDataNeededAlways(store, server_id, day) == TRUE

IsNewDataNeededForServer(store, server_id, day) ==
    LET latest_date == GetLatestDataDateForServer(store, server_id) IN
    IF latest_date # None THEN Unwrap(latest_date) < day ELSE TRUE

\* the address the dump is fetched from
SqlUrl(url) ==
    IF EndsWith(url, <<SLASH>> \o MAP_SQL) \/ EndsWith(url, MAP_SQL) THEN url
    ELSE TrimMatchesEnd(url, SLASH) \o <<SLASH>> \o MAP_SQL

\* what the HTTP GET can come to: no response, a response of another status
\* than success, or a dump, of which the store then rejects some INSERTs
Fetches ==
    {<<"transport_error">>, <<"http_error">>}
    \cup {<<"ok", d, rejected>> : d \in DOMAIN Dumps, rejected \in 0..MaxInsertFailures}

\* an automatic load that creates today's partition before it fetches
AutoLoadCreatesBeforeFetch(store, server, day, fetch) ==
    LET created == CreateTableForServerAndDate(store, server.id, day) IN
    IF ~IsNewDataNeededForServer(store, server.id, day)
    THEN [store |-> store, needed |-> FALSE, fetched |-> FALSE, ingested |-> FALSE,
          sql_url |-> <<>>, ret |-> <<"ok", "Data is up to date">>]
    ELSE IF fetch[1] # "ok"
    THEN [store |-> created, needed |-> TRUE, fetched |-> TRUE, ingested |-> FALSE,
          sql_url |-> <<>>, ret |-> <<"err", "Failed to fetch SQL">>]
    ELSE Only({ [store |-> done.store, needed |-> TRUE, fetched |-> TRUE, ingested |-> TRUE,
                 sql_url |-> <<>>,
                 ret |-> IF done.ret[1] = "panic" THEN done.ret
                         ELSE <<"ok", "Successfully loaded", done.ret[2]>>]
              : done \in {ExecuteSqlForServer(created, fetch[2], server.id, day, fetch[3])} })

\* auto_load_data_for_server, lines 694-725
AutoLoadDataForServer(store, server, day, fetch) ==
    IF ~IsNewDataNeededForServer(store, server.id, day)
    THEN [store |-> store, needed |-> FALSE, fetched |-> FALSE, ingested |-> FALSE,
          sql_url |-> <<>>, ret |-> <<"ok", "Data is up to date">>]
    ELSE IF fetch[1] = "transport_error"
    THEN [store |-> store, needed |-> TRUE, fetched |-> TRUE, ingested |-> FALSE,
          sql_url |-> SqlUrl(server.url), ret |-> <<"err", "Failed to fetch SQL">>]
    ELSE IF fetch[1] = "http_error"
    THEN [store |-> store, needed |-> TRUE, fetched |-> TRUE, ingested |-> FALSE,
          sql_url |-> SqlUrl(server.url), ret |-> <<"err", "HTTP error">>]
    ELSE Only({ [store |-> done.store, needed |-> TRUE, fetched |-> TRUE, ingested |-> TRUE,
                 sql_url |-> SqlUrl(server.url),
                 ret |-> IF done.ret[1] = "panic" THEN done.ret
                         ELSE <<"ok", "Successfully loaded", done.ret[2]>>]
              : done \in {ExecuteSqlForServer(store, fetch[2], server.id, day, fetch[3])} })

-----------------------------------------------------------------------------
(* The servers table: add_server, set_active_server, remove_server *)

MaxOps == 3             \* calls that manage servers

ServerNames == {<<"a">>, <<"b">>}

\* the address registered with a name: with and without the file name
UrlOf(name) ==
    IF name = <<"a">> THEN <<"h", "/">> ELSE <<"h", "/">> \o MAP_SQL

LetterRank(c) == CHOOSE i \in DOMAIN LowerCase : LowerCase[i] = c

\* a sorts before b, for names in lower-case letters
RECURSIVE NameLess(_, _)
NameLess(a, b) ==
    IF b = <<>> THEN FALSE
    ELSE IF a = <<>> THEN TRUE
    ELSE IF Head(a) # Head(b) THEN LetterRank(Head(a)) < LetterRank(Head(b))
    ELSE NameLess(Tail(a), Tail(b))

\* get_all_servers(...).first(): ORDER BY name
FirstServer(rows) ==
    IF rows = {} THEN None
    ELSE Some(CHOOSE r \in rows : \A q \in rows : ~NameLess(q.name, r.name))

FindServer(rows, server_id) ==
    IF \E r \in rows : r.id = server_id
    THEN Some(CHOOSE r \in rows : r.id = server_id) ELSE None

\* set_active_server when the first UPDATE is left out
SetActiveServerWithoutReset(rows, server_id) ==
    {[r EXCEPT !.is_active = (r.is_active \/ r.id = server_id)] : r \in rows}

\* UPDATE servers SET is_active = FALSE; UPDATE ... SET is_active = TRUE WHERE id = $1
SetActiveServerRows(rows, server_id) ==
    {[r EXCEPT !.is_active = (r.id = server_id)] : r \in rows}

\* DROP TABLE IF EXISTS for every partition get_available_dates_for_server lists
RECURSIVE DropServerTables(_, _, _)
DropServerTables(store, server_id, dates) ==
    IF dates = <<>> THEN store
    ELSE DropServerTables(
             DropTable(store, GetTableNameForServerAndDate(server_id, Head(dates)[1])),
             server_id, Tail(dates))

Op(name, server_id, fetch, load, ret) ==
    [seq |-> op.seq + 1, name |-> name, server_id |-> server_id, fetch |-> fetch,
     needed |-> load.needed, fetched |-> load.fetched, ingested |-> load.ingested,
     ret |-> ret]

NoLoad == [needed |-> FALSE, fetched |-> FALSE, ingested |-> FALSE]

\* add_server, lines 573-607.  A name already registered violates UNIQUE:
\* the call fails, the SERIAL value it drew is lost.
AddServer(name, fetch) ==
    /\ op.seq < MaxOps
    /\ serial' = serial + 1
    /\ IF \E r \in servers : r.name = name
       THEN /\ servers' = servers
            /\ tables' = tables
            /\ op' = Op("add_server", serial', <<>>, NoLoad, <<"err", "unique">>)
       ELSE LET server == [id |-> serial', name |-> name, url |-> UrlOf(name),
                           is_active |-> FALSE]
                all_servers == servers \cup {server}
            IN IF Cardinality(all_servers) = 1
               THEN \E load \in {AutoLoadDataForServer(tables, server, today, fetch)} :
                    /\ servers' = SetActiveServerRows(all_servers, server.id)
                    /\ tables' = load.store
                    /\ op' = Op("add_server", server.id, fetch, load,
                                IF load.ret = <<"panic">> THEN load.ret
                                ELSE <<"ok", server>>)
               ELSE /\ servers' = all_servers
                    /\ tables' = tables
                    /\ op' = Op("add_server", server.id, <<>>, NoLoad, <<"ok", server>>)
    /\ UNCHANGED <<today, run, calls>>
    /\ UNCHANGED parseVars
    /\ UNCHANGED <<afkVars, allyVars, concVars>>

\* set_active_server, lines 609-622
SetActiveServer(server_id) ==
    /\ op.seq < MaxOps
    /\ servers' = SetActiveServerRows(servers, server_id)
    /\ op' = Op("set_active_server", server_id, <<>>, NoLoad, <<"ok">>)
    /\ UNCHANGED serial
    /\ UNCHANGED storeVars
    /\ UNCHANGED parseVars
    /\ UNCHANGED <<afkVars, allyVars, concVars>>

\* set_active_server_with_auto_load, lines 624-639
SetActiveServerWithAutoLoad(server_id, fetch) ==
    /\ op.seq < MaxOps
    /\ servers' = SetActiveServerRows(servers, server_id)
    /\ LET server == FindServer(servers', server_id) IN
       IF server # None
       THEN \E load \in {AutoLoadDataForServer(tables, Unwrap(server), today, fetch)} :
            /\ tables' = load.store
            /\ op' = Op("set_active_server_with_auto_load", server_id, fetch, load,
                        CASE load.ret[1] = "ok" -> load.ret
                          [] load.ret[1] = "err" ->
                                <<"ok", "Server activated but failed to auto-load data">>
                          [] OTHER -> load.ret)
       ELSE /\ tables' = tables
            /\ op' = Op("set_active_server_with_auto_load", server_id, <<>>, NoLoad,
                        <<"ok", "Server activated successfully">>)
    /\ UNCHANGED serial
    /\ UNCHANGED <<today, run, calls>>
    /\ UNCHANGED parseVars
    /\ UNCHANGED <<afkVars, allyVars, concVars>>

\* activate_server_api, main.rs lines 230-279: success whatever the load says
ActivateServerApi(server_id, fetch) ==
    /\ op.seq < MaxOps
    /\ servers' = SetActiveServerRows(servers, server_id)
    /\ LET server == FindServer(servers', server_id) IN
       IF server # None
       THEN \E load \in {AutoLoadDataForServer(tables, Unwrap(server), today, fetch)} :
            /\ tables' = load.store
            /\ op' = Op("activate_server_api", server_id, fetch, load,
                        IF load.ret = <<"panic">> THEN load.ret
                        ELSE <<"ok", "Server activated successfully">>)
       ELSE /\ tables' = tables
            /\ op' = Op("activate_server_api", server_id, <<>>, NoLoad,
                        <<"ok", "Server activated successfully">>)
    /\ UNCHANGED serial
    /\ UNCHANGED <<today, run, calls>>
    /\ UNCHANGED parseVars
    /\ UNCHANGED <<afkVars, allyVars, concVars>>

\* remove_server, lines 641-673
RemoveServer(server_id) ==
    /\ op.seq < MaxOps
    /\ LET active_server == GetActiveServer(servers)
           is_removing_active ==
               IF active_server = None THEN FALSE
               ELSE Unwrap(active_server).id = server_id
           remaining_servers == {r \in servers : r.id # server_id}
           first_server == FirstServer(remaining_servers)
       IN /\ tables' = DropServerTables(tables, server_id,
                                        GetAvailableDatesForServer(tables, server_id))
          /\ servers' = IF is_removing_active /\ first_server # None
                        THEN SetActiveServerRows(remaining_servers,
                                                 Unwrap(first_server).id)
                        ELSE remaining_servers
    /\ op' = Op("remove_server", server_id, <<>>, NoLoad, <<"ok">>)
    /\ UNCHANGED serial
    /\ UNCHANGED <<today, run, calls>>
    /\ UNCHANGED parseVars
    /\ UNCHANGED <<afkVars, allyVars, concVars>>

\* ids of servers registered and of none
ServerIds == 1..(MaxOps + 1)

RegInit ==
    /\ ParseIdle
    /\ AfkIdle
    /\ AllyIdle
    /\ ConcIdle
    /\ RegIdle
    /\ StoreIdle

RegNext ==
    \/ Tick
    \/ \E name \in ServerNames, fetch \in Fetches : AddServer(name, fetch)
    \/ \E server_id \in ServerIds : SetActiveServer(server_id)
    \/ \E server_id \in ServerIds, fetch \in Fetches :
          SetActiveServerWithAutoLoad(server_id, fetch)
    \/ \E server_id \in ServerIds, fetch \in Fetches : ActivateServerApi(server_id, fetch)
    \/ \E server_id \in ServerIds : RemoveServer(server_id)

SpecServers == RegInit /\ [][RegNext]_vars

-----------------------------------------------------------------------------
(* Properties of the servers table and the automatic load (SpecServers) *)

ActiveServers == {r \in servers : r.is_active}

\* C17: after any sequence of add_server, set_active_server and remove_server
\* calls run one at a time, at most one server is active.
C17_AtMostOneActive == Cardinality(ActiveServers) <= 1

\* the second server has been made the active one in place of the first
C17_Witness ==
    /\ op.name = "set_active_server"
    /\ Cardinality(servers) = 2
    /\ \E r \in ActiveServers : r.id = op.server_id /\ r.id # 1

\* the step is a call that reaches auto_load_data_for_server
CallsAutoLoad ==
    /\ op'.seq = op.seq + 1
    /\ \/ /\ op'.name \in {"set_active_server_with_auto_load", "activate_server_api"}
          /\ \E r \in servers : r.id = op'.server_id
       \/ /\ op'.name = "add_server"
          /\ servers = {} /\ servers' # {}

\* the server's latest partition is today's
UpToDate(server_id) ==
    LET dates == ServerDates(tables, server_id) IN
    dates # {} /\ \A d \in dates : d <= today /\ today \in dates

\* C18: the automatic load fetches when the server's latest partition is not
\* today's or the server has none, and ingests what it fetched; when the
\* latest partition is today's it fetches nothing, changes no partition and
\* says 'Data is up to date'.
C18_AutoLoadOnlyWhenStale ==
    [][CallsAutoLoad
        => /\ op'.fetched = ~UpToDate(op'.server_id)
           /\ op'.ingested = (~UpToDate(op'.server_id) /\ op'.fetch[1] = "ok")
           /\ UpToDate(op'.server_id)
                 => /\ tables' = tables
                    /\ op'.name = "set_active_server_with_auto_load"
                          => op'.ret = <<"ok", "Data is up to date">>]_vars

\* a server loaded earlier the same day is activated again: nothing is fetched
C18_Witness ==
    /\ op.name = "set_active_server_with_auto_load"
    /\ op.ret = <<"ok", "Data is up to date">>
    /\ ~op.fetched
    /\ GetTableNameForServerAndDate(op.server_id, today) \in DOMAIN tables
    /\ tables[GetTableNameForServerAndDate(op.server_id, today)] # <<>>

\* C19: when the fetch fails or the response is not a success, the call
\* set_active_server_with_auto_load still returns success, the requested
\* server is active and the store's partitions are as before the call.
C19_FetchFailureLeavesStore ==
    [][(/\ op'.seq = op.seq + 1
        /\ op'.name = "set_active_server_with_auto_load"
        /\ op'.fetched
        /\ op'.fetch[1] \in {"transport_error", "http_error"})
        => /\ op'.ret[1] = "ok"
           /\ \E r \in servers' : r.id = op'.server_id /\ r.is_active
           /\ Cardinality({r \in servers' : r.is_active}) = 1
           /\ tables' = tables]_vars

\* the second server was activated, the response to the fetch was an error
C19_Witness ==
    /\ op.name = "set_active_server_with_auto_load"
    /\ op.fetched /\ op.fetch = <<"http_error">>
    /\ op.ret = <<"ok", "Server activated but failed to auto-load data">>
    /\ \E r \in ActiveServers : r.id = op.server_id
    /\ \E r \in servers : ~r.is_active

-----------------------------------------------------------------------------
(* The order of the steps of one ingest run (Spec) *)

RunRows(store) ==
    IF run.table_name \in DOMAIN store THEN store[run.table_name] ELSE <<>>

\* C20: a run creates today's partition if it is absent, then clears it, then
\* inserts, then prunes: rows are added only between the clear and the
\* pruning, and the pruning comes only when every line has been processed.
C20_CreateClearInsertPrune ==
    [][/\ calls' = calls + 1
          => /\ run'.pc = "clear"
             /\ DOMAIN tables' = DOMAIN tables \cup {run'.table_name}
             /\ \A n \in DOMAIN tables : tables'[n] = tables[n]
       /\ (run.pc = "clear" /\ run' # run)
          => /\ run'.pc = "lines" /\ run'.idx = 1
             /\ CountWhere(tables'[run.table_name], run.server_id) = 0
             /\ run'.village_count = 0
       /\ (calls' = calls /\ Len(RunRows(tables')) > Len(RunRows(tables)))
          => /\ run.pc = "lines" /\ run'.pc = "lines"
             /\ run.idx <= DumpLen[run.dump]
       /\ (run'.pc = "done" /\ run.pc # "done")
          => /\ run.pc = "lines"
             /\ run.idx > DumpLen[run.dump]
       /\ (calls' = calls /\ DOMAIN tables' # DOMAIN tables)
          => (run.pc = "lines" /\ run'.pc = "done")]_vars

\* a run that found rows of an earlier run, loaded its own and pruned
C20_Witness ==
    /\ run.pc = "done" /\ run.last = "cleanup"
    /\ run.prior # <<>>
    /\ run.accepted # <<>>
    /\ tables[run.table_name] = run.accepted

-----------------------------------------------------------------------------
(* Two execute_sql_for_server calls for one server that run at the same     *)
(* time: every awaited statement is a step of its own, and nothing keeps    *)
(* the statements of one call together.                                     *)

RaceServer == 1

\* today's partition of the server holds rows of a load made earlier today
RaceTables(prior) ==
    [CreateTables(EmptyStore, StartDay) EXCEPT
        ![GetTableNameForServerAndDate(RaceServer, StartDay)] = prior]

RaceInit ==
    /\ ParseIdle
    /\ AfkIdle
    /\ AllyIdle
    /\ RegIdle
    /\ today = StartDay
    /\ \E prior \in {<<>>, <<HistRow(RaceServer, StartDay)>>} : tables = RaceTables(prior)
    /\ run = RunIdle
    /\ calls = 0
    /\ ConcIdle

JobOutcome(t) == LineOutcomes[jobs[t].dump][jobs[t].idx]

AtLine(t) == jobs[t].pc = "lines" /\ jobs[t].idx <= DumpLen[jobs[t].dump]

JobFrame ==
    /\ UNCHANGED <<today, run, calls, acts>>
    /\ UNCHANGED parseVars
    /\ UNCHANGED <<afkVars, allyVars, regVars>>

\* lines 372-375
JobStart(t, dump) ==
    /\ jobs[t].pc = "idle"
    /\ tables' = CreateTableForServerAndDate(tables, RaceServer, today)
    /\ jobs' = [jobs EXCEPT ![t] =
                  [RunIdle EXCEPT !.pc = "clear", !.server_id = RaceServer, !.dump = dump,
                     !.table_name = GetTableNameForServerAndDate(RaceServer, today)]]
    /\ JobFrame

\* lines 378-379
JobClear(t) ==
    /\ jobs[t].pc = "clear"
    /\ tables' = [tables EXCEPT ![jobs[t].table_name] = DeleteForServer(@, jobs[t].server_id)]
    /\ jobs' = [jobs EXCEPT ![t].pc = "lines", ![t].idx = 1]
    /\ JobFrame

\* lines 385-392, 398-403
JobSkipLine(t) ==
    /\ AtLine(t)
    /\ JobOutcome(t) = <<"skip">>
    /\ jobs' = [jobs EXCEPT ![t].idx = @ + 1, ![t].last = "skipped"]
    /\ UNCHANGED tables
    /\ JobFrame

\* line 404
JobPanic(t) ==
    /\ AtLine(t)
    /\ JobOutcome(t) = <<"panic">>
    /\ jobs' = [jobs EXCEPT ![t].pc = "panicked", ![t].last = "panic"]
    /\ UNCHANGED tables
    /\ JobFrame

\* lines 407, 415-417
JobParseFailure(t) ==
    /\ AtLine(t)
    /\ JobOutcome(t)[1] = "values"
    /\ JobOutcome(t)[3] = <<>>
    /\ jobs' = [jobs EXCEPT ![t].idx = @ + 1, ![t].last = "parse_failed"]
    /\ UNCHANGED tables
    /\ JobFrame

\* an INSERT that is stored and not counted
JobInsertUncounted(t) ==
    /\ AtLine(t)
    /\ JobOutcome(t)[1] = "values"
    /\ JobOutcome(t)[3] # <<>>
    /\ \E row \in {RowOf(Unwrap(JobOutcome(t)[3]), jobs[t].server_id)} :
          /\ tables' = [tables EXCEPT ![jobs[t].table_name] = Append(@, row)]
          /\ jobs' = [jobs EXCEPT ![t].idx = @ + 1, ![t].last = "inserted",
                                  ![t].accepted = Append(@, row)]
    /\ JobFrame

\* lines 407-409
JobInsert(t) ==
    /\ AtLine(t)
    /\ JobOutcome(t)[1] = "values"
    /\ JobOutcome(t)[3] # <<>>
    /\ \E row \in {RowOf(Unwrap(JobOutcome(t)[3]), jobs[t].server_id)} :
          /\ tables' = [tables EXCEPT ![jobs[t].table_name] = Append(@, row)]
          /\ jobs' = [jobs EXCEPT ![t].idx = @ + 1, ![t].last = "inserted",
                                  ![t].village_count = @ + 1,
                                  ![t].accepted = Append(@, row)]
    /\ JobFrame

\* lines 410-413
JobInsertFailure(t) ==
    /\ AtLine(t)
    /\ JobOutcome(t)[1] = "values"
    /\ JobOutcome(t)[3] # <<>>
    /\ jobs[t].insert_failures < MaxInsertFailures
    /\ jobs' = [jobs EXCEPT ![t].idx = @ + 1, ![t].last = "insert_failed",
                            ![t].insert_failures = @ + 1]
    /\ UNCHANGED tables
    /\ JobFrame

\* lines 424-427
JobCleanup(t) ==
    /\ jobs[t].pc = "lines" /\ jobs[t].idx > DumpLen[jobs[t].dump]
    /\ tables' = CleanupOldTables(tables)
    /\ jobs' = [jobs EXCEPT ![t].pc = "done", ![t].last = "cleanup",
                            ![t].ret = Some(jobs[t].village_count)]
    /\ JobFrame

RaceNext ==
    \/ \E t \in Tasks, dump \in DOMAIN Dumps : JobStart(t, dump)
    \/ \E t \in Tasks : JobClear(t)
    \/ \E t \in Tasks : JobSkipLine(t)
    \/ \E t \in Tasks : JobPanic(t)
    \/ \E t \in Tasks : JobParseFailure(t)
    \/ \E t \in Tasks : JobInsert(t)
    \/ \E t \in Tasks : JobInsertFailure(t)
    \/ \E t \in Tasks : JobCleanup(t)

SpecRace == RaceInit /\ [][RaceNext]_vars

RaceTable == tables[GetTableNameForServerAndDate(RaceServer, StartDay)]

Range(s) == {s[i] : i \in DOMAIN s}

BothReturned == \A t \in Tasks : jobs[t].pc = "done"

\* C21: two runs for one server and date interleave statement by statement.
\* Once both have returned, today's partition holds only rows the two runs
\* inserted: at least as many as one of them counted, at most as many as both
\* counted together (C21_Witness: rows of both, more than either counted).
C21_RowsOfBothRuns ==
    BothReturned =>
        /\ Range(RaceTable) \subseteq UNION {Range(jobs[t].accepted) : t \in Tasks}
        /\ \E t \in Tasks : Len(RaceTable) >= Unwrap(jobs[t].ret)
        /\ Len(RaceTable) <= Unwrap(jobs[1].ret) + Unwrap(jobs[2].ret)

C21_Witness ==
    /\ BothReturned
    /\ \A t \in Tasks : Len(RaceTable) > Unwrap(jobs[t].ret)
    /\ \A t \in Tasks : \E i \in DOMAIN RaceTable :
          /\ RaceTable[i] \in Range(jobs[t].accepted)
          /\ \A u \in Tasks \ {t} : RaceTable[i] \notin Range(jobs[u].accepted)

-----------------------------------------------------------------------------
(* The automatic load and an empty partition of today (SpecServers) *)

\* today's partition of the server exists and holds no row of it
EmptyToday(server_id) ==
    /\ GetTableNameForServerAndDate(server_id, today) \in DOMAIN tables
    /\ CountWhere(tables[GetTableNameForServerAndDate(server_id, today)], server_id) = 0

\* C22: when today's partition of a server exists and is empty, the next
\* automatic load for that server on the same day does not report the data
\* as up to date: it fetches, and ingests what a successful fetch returned.
C22_EmptyPartitionReloaded ==
    [][(CallsAutoLoad /\ EmptyToday(op'.server_id))
        => /\ op'.needed
           /\ op'.ret # <<"ok", "Data is up to date">>
           /\ op'.fetch[1] = "ok" => op'.ingested]_vars

-----------------------------------------------------------------------------
(* get_villages_by_server_and_date: the rows of a partition as MapData *)

\* A u32 is kept as its two 16-bit halves <<high, low>>: values from 2^31 on
\* are beyond the integers of the checker.
Half == 65536

\* the halves of a number that is its own u32 value
U32Of(n) == <<n \div Half, n % Half>>

\* `v as u32` for an i32: the same 32 bits, read without a sign
AsU32(v) ==
    IF v >= 0 THEN U32Of(v)
    ELSE LET w == (v + I32Max) + 1 IN <<(w \div Half) + (Half \div 2), w % Half>>

MapDataOf(row) ==
    [name |-> row.village, x |-> row.x, y |-> row.y,
     population |-> AsU32(row.population), player |-> row.player,
     alliance |-> row.alliance, worldid |-> row.worldid]

\* lines 234-271: nothing when the table is absent, else the rows of the
\* server by population, largest first
GetVillagesByServerAndDate(store, server_id, date) ==
    LET table_name == GetTableNameForServerAndDate(server_id, date) IN
    IF table_name \notin DOMAIN store THEN <<>>
    ELSE LET rows == SortByPopulationDesc(
                         SelectSeq(store[table_name], LAMBDA r : r.server_id = server_id))
         IN [i \in DOMAIN rows |-> MapDataOf(rows[i])]

\* C23: every settlement an ingest stored has population >= 0, so that
\* get_villages_by_server_and_date reads the same population back unsigned.
C23_PopulationNonNegative ==
    \A n \in DOMAIN tables : n[1] = "villages_server" =>
        /\ \A i \in DOMAIN tables[n] : tables[n][i].population >= 0
        /\ LET rows == SortByPopulationDesc(
                           SelectSeq(tables[n], LAMBDA r : r.server_id = n[2]))
               read == GetVillagesByServerAndDate(tables, n[2], n[3])
           IN \A i \in DOMAIN read : read[i].population = U32Of(rows[i].population)

-----------------------------------------------------------------------------
(* Two set_active_server calls that run at the same time: each UPDATE is a  *)
(* statement of its own on the pool, outside any transaction.               *)

\* UPDATE servers SET is_active = FALSE
UpdateAllInactive(rows) == {[r EXCEPT !.is_active = FALSE] : r \in rows}

\* UPDATE servers SET is_active = TRUE WHERE id = $1
UpdateActive(rows, server_id) ==
    {[r EXCEPT !.is_active = (r.is_active \/ r.id = server_id)] : r \in rows}

\* the servers table after add_server for every name, one of them active
Registered(active) ==
    SetActiveServerRows(
        {[id |-> LetterRank(name[1]), name |-> name, url |-> UrlOf(name),
          is_active |-> FALSE] : name \in ServerNames},
        active)

ActInit ==
    /\ ParseIdle
    /\ AfkIdle
    /\ AllyIdle
    /\ StoreIdle
    /\ \E active \in 1..Cardinality(ServerNames) : servers = Registered(active)
    /\ serial = Cardinality(ServerNames)
    /\ op = OpIdle
    /\ ConcIdle

ActFrame ==
    /\ UNCHANGED <<serial, op, jobs>>
    /\ UNCHANGED storeVars
    /\ UNCHANGED parseVars
    /\ UNCHANGED <<afkVars, allyVars>>

\* the call is made
ActStart(t, server_id) ==
    /\ acts[t].pc \in {"idle", "done"}
    /\ acts' = [acts EXCEPT ![t] = [pc |-> "reset", server_id |-> server_id]]
    /\ UNCHANGED servers
    /\ ActFrame

\* lines 611-613
ActReset(t) ==
    /\ acts[t].pc = "reset"
    /\ servers' = UpdateAllInactive(servers)
    /\ acts' = [acts EXCEPT ![t].pc = "set"]
    /\ ActFrame

\* lines 616-621
ActSet(t) ==
    /\ acts[t].pc = "set"
    /\ servers' = UpdateActive(servers, acts[t].server_id)
    /\ acts' = [acts EXCEPT ![t].pc = "done"]
    /\ ActFrame

ActNext ==
    \/ \E t \in Tasks, server_id \in ServerIds : ActStart(t, server_id)
    \/ \E t \in Tasks : ActReset(t)
    \/ \E t \in Tasks : ActSet(t)

SpecActs == ActInit /\ [][ActNext]_vars

\* C24: at most one server is active in every state two set_active_server
\* calls for different servers can reach, however their statements interleave.
C24_AtMostOneActiveInterleaved ==
    \A r \in servers, q \in servers : (r.is_active /\ q.is_active) => r.id = q.id

-----------------------------------------------------------------------------
(* One active server while any is registered (SpecServers) *)

\* C25: whenever a server is registered, and after any sequence of
\* add_server, set_active_server (with any id) and remove_server calls,
\* exactly one server is active.
C25_ExactlyOneActive == servers # {} => Cardinality(ActiveServers) = 1

-----------------------------------------------------------------------------
(* Names and the count of alliances in one result (SpecAlliance) *)

\* C26: in every result each alliance name is listed at most once, and the
\* list has at most total_alliances entries.
C26_NamesOnceAndWithinTotal ==
    (ally.pc = "done" /\ ally.ret # <<>>)
        => LET info == Unwrap(ally.ret)
               top == info.top_alliances
           IN /\ \A j \in DOMAIN top, k \in DOMAIN top :
                    top[j].alliance_name = top[k].alliance_name => j = k
              /\ Len(top) <= info.total_alliances

====
